---- MODULE Spec2Model ----
(***************************************************************************)
(* Mobile Guard: the risk-assessment and report-composition pipeline.      *)
(*                                                                         *)
(*   report_compose.py  ReportComposer (scorer, composer, batch save)      *)
(*   apk_analyzer.py    analyze_apk, process_apk, analyze_single_apk       *)
(*                                                                         *)
(* Python values are records [type, val]; a str is a tuple of one-         *)
(* character strings, so that lower-casing and substring search are        *)
(* computed character by character as str.lower() and `in` compute them.   *)
(* The three risk tiers "низкий", "средний", "высокий" are written         *)
(* "low", "medium", "high".                                                *)
(***************************************************************************)
EXTENDS Integers, Sequences, FiniteSets, TLC

VARIABLES
    pc,             \* position of the caller: which call has returned
    apk_info,       \* compose_report argument: the file descriptor
    analysis_data,  \* compose_report argument: the package facts
    report,         \* the value compose_report returned
    earlier,        \* the arguments and the report of the call before
    now,            \* the system clock, in seconds
    ANDROGUARD_AVAILABLE,       \* apk_analyzer: androguard was imported
    REPORT_COMPOSER_AVAILABLE,  \* apk_analyzer: report_compose was imported
    packages,       \* the paths of the package files on the disk
    AnalyzeAPK,     \* what androguard's AnalyzeAPK does with the package
    apk_path,       \* analyze_single_apk argument
    output_dir,     \* analyze_single_apk argument
    failing,        \* the formats whose file cannot be opened for writing
    dirs,           \* the directories that os.makedirs has created
    files,          \* the report files on the disk: path -> content
    saved_files,    \* the mapping the last save_report returned
    result,         \* the value the last analyze_single_apk returned
    runs,           \* the number of analyze_single_apk calls made
    calls,          \* the save_report calls in progress: caller -> frame
    apk_list_view,  \* interface: the controls of the APK list, in order
    file_count_text, \* interface: the number that the file count shows
    dialog,         \* interface: the confirmation dialog that is open
    mtime           \* the modification time of the files: path -> seconds

composer == <<apk_info, analysis_data, report, earlier>>
environment ==
    <<ANDROGUARD_AVAILABLE, REPORT_COMPOSER_AVAILABLE, packages, AnalyzeAPK,
      apk_path, output_dir, failing>>
pipeline == <<dirs, files, saved_files, result, runs>>
application == <<calls, apk_list_view, file_count_text, dialog, mtime>>

vars == <<pc, composer, now, environment, pipeline, application>>

----------------------------------------------------------------------------
(* Bounds of the model.                                                     *)

MaxNameParts == 2   \* a file name is made of at most this many name parts
MaxPerms == 3       \* a permission list has at most this many entries
MaxRuns == 2        \* analyze_single_apk is called at most this many times
MaxClock == 1       \* the clock advances at most this many seconds
MaxFormats == 2     \* save_report is asked for at most this many formats
MaxSaves == 1       \* save_report is called at most this many times

----------------------------------------------------------------------------
(* Python values.                                                           *)

PyNone == [type |-> "NoneType", val |-> <<>>]
PyInt(n) == [type |-> "int", val |-> n]
PyStr(chars) == [type |-> "str", val |-> chars]
PyList(items) == [type |-> "list", val |-> items]
\* a set, val being the order in which iteration yields its elements
PySet(items) == [type |-> "set", val |-> items]
\* a dict, val being a function from its keys to its values
PyDict(f) == [type |-> "dict", val |-> f]

IsStr(v) == v.type = "str"
IsDict(v) == v.type = "dict"
\* len(v) is defined on the sized types, and raises TypeError on the others
HasLen(v) == v.type \in {"str", "list", "set", "dict"}
PyLen(v) == IF v.type = "dict" THEN Cardinality(DOMAIN v.val) ELSE Len(v.val)
\* `for x in v`: the elements in iteration order. Iterating a dict yields
\* its keys; the only value the code iterates is Permissions, which is never
\* drawn as a dict here, so the iteration of a dict is left out.
IsIterable(v) == v.type \in {"str", "list", "set"}
Items(v) ==
    IF v.type = "str" THEN [i \in 1..Len(v.val) |-> PyStr(<<v.val[i]>>)]
    ELSE v.val
\* d.get(key, default)
Get(d, key, default) == IF key \in DOMAIN d.val THEN d.val[key] ELSE default

ToLower ==
    [A |-> "a", B |-> "b", C |-> "c", D |-> "d", E |-> "e", F |-> "f",
     G |-> "g", H |-> "h", I |-> "i", J |-> "j", K |-> "k", L |-> "l",
     M |-> "m", N |-> "n", O |-> "o", P |-> "p", Q |-> "q", R |-> "r",
     S |-> "s", T |-> "t", U |-> "u", V |-> "v", W |-> "w", X |-> "x",
     Y |-> "y", Z |-> "z"]

UpperCase == DOMAIN ToLower

\* str.lower()
Lower(s) ==
    [i \in 1..Len(s) |-> IF s[i] \in UpperCase THEN ToLower[s[i]] ELSE s[i]]

\* `k in s` for two strings: k occurs in s as a contiguous substring
Contains(s, k) ==
    \E i \in 0..(Len(s) - Len(k)) : \A j \in 1..Len(k) : s[i + j] = k[j]

----------------------------------------------------------------------------
(* ReportComposer.__init__: the rule tables.                                *)

supported_formats == <<"json", "csv", "txt", "html">>

suspicious_keywords ==
    << <<"h","a","c","k">>,
       <<"c","r","a","c","k">>,
       <<"m","o","d">>,
       <<"p","r","e","m","i","u","m">>,
       <<"f","r","e","e">>,
       <<"c","h","e","a","t">>,
       <<"v","i","r","u","s">>,
       <<"t","r","o","j","a","n">>,
       <<"m","a","l","w","a","r","e">>,
       <<"s","p","y","w","a","r","e">>,
       <<"k","e","y","l","o","g","g","e","r">>,
       <<"b","o","t">>,
       <<"e","x","p","l","o","i","t">>,
       <<"r","o","o","t">>,
       <<"j","a","i","l","b","r","e","a","k">>,
       <<"a","d","w","a","r","e">>,
       <<"r","a","n","s","o","m","w","a","r","e">> >>

dangerous_permissions ==
    << <<"R","E","A","D","_","S","M","S">>,
       <<"S","E","N","D","_","S","M","S">>,
       <<"R","E","C","E","I","V","E","_","S","M","S">>,
       <<"R","E","A","D","_","C","O","N","T","A","C","T","S">>,
       <<"W","R","I","T","E","_","C","O","N","T","A","C","T","S">>,
       <<"A","C","C","E","S","S","_","F","I","N","E","_","L","O","C","A","T","I","O","N">>,
       <<"A","C","C","E","S","S","_","C","O","A","R","S","E","_","L","O","C","A","T","I","O","N">>,
       <<"R","E","C","O","R","D","_","A","U","D","I","O">>,
       <<"C","A","M","E","R","A">>,
       <<"R","E","A","D","_","C","A","L","L","_","L","O","G">>,
       <<"W","R","I","T","E","_","C","A","L","L","_","L","O","G">> >>

----------------------------------------------------------------------------
(* ReportComposer._extract_dangerous_permissions.                           *)

\* as _extract_inner, but the permission is put in front of the list
RECURSIVE _extract_inner_prepend(_, _, _)
_extract_inner_prepend(perm, j, dangerous) ==
    IF j > Len(dangerous_permissions) THEN dangerous
    ELSE IF Contains(Lower(perm.val), Lower(dangerous_permissions[j]))
         THEN <<perm>> \o dangerous
         ELSE _extract_inner_prepend(perm, j + 1, dangerous)

\* as _extract_inner, but without the break
RECURSIVE _extract_inner_no_break(_, _, _)
_extract_inner_no_break(perm, j, dangerous) ==
    IF j > Len(dangerous_permissions) THEN dangerous
    ELSE IF Contains(Lower(perm.val), Lower(dangerous_permissions[j]))
         THEN _extract_inner_no_break(perm, j + 1, Append(dangerous, perm))
         ELSE _extract_inner_no_break(perm, j + 1, dangerous)

\* the inner loop, from table entry j on: the first entry that the
\* permission contains appends the permission and breaks
RECURSIVE _extract_inner(_, _, _)
_extract_inner(perm, j, dangerous) ==
    IF j > Len(dangerous_permissions) THEN dangerous
    ELSE IF Contains(Lower(perm.val), Lower(dangerous_permissions[j]))
         THEN Append(dangerous, perm)
         ELSE _extract_inner(perm, j + 1, dangerous)

\* the outer loop, from permission i on
RECURSIVE _extract_loop(_, _, _)
_extract_loop(perms, i, dangerous) ==
    IF i > Len(perms) THEN dangerous
    ELSE LET appended == _extract_inner(perms[i], 1, dangerous)
         IN  \* the list is computed before the next iteration begins
             IF Len(appended) >= Len(dangerous)
             THEN _extract_loop(perms, i + 1, appended)
             ELSE dangerous

\* the list `dangerous` that is returned
_extract_dangerous_permissions(permissions) ==
    _extract_loop(Items(permissions), 1, <<>>)

\* the call raises: permissions cannot be iterated (TypeError), or an
\* element has no lower() (AttributeError); the table is not empty, so
\* perm.lower() is evaluated for every element
_extract_raises(permissions) ==
    \/ ~IsIterable(permissions)
    \/ \E i \in 1..Len(Items(permissions)) : ~IsStr(Items(permissions)[i])

----------------------------------------------------------------------------
(* ReportComposer._calculate_suspicious_score.                              *)

\* `score` is a float that only ever holds multiples of 0.5: it is kept as
\* an integer number of 1/ScoreUnit
ScoreUnit == 2

Min(a, b) == IF a <= b THEN a ELSE b

\* as _count_keywords, but the loop stops at the first keyword found
RECURSIVE _count_keywords_first_only(_, _, _)
_count_keywords_first_only(apk_name_lower, i, score) ==
    IF i > Len(suspicious_keywords) THEN score
    ELSE IF Contains(apk_name_lower, suspicious_keywords[i])
         THEN score + ScoreUnit
         ELSE _count_keywords_first_only(apk_name_lower, i + 1, score)

\* the keyword loop, from table entry i on: score += 1 for every keyword
\* that occurs in the lower-cased name
RECURSIVE _count_keywords(_, _, _)
_count_keywords(apk_name_lower, i, score) ==
    IF i > Len(suspicious_keywords) THEN score
    ELSE _count_keywords(apk_name_lower, i + 1,
            IF Contains(apk_name_lower, suspicious_keywords[i])
            THEN score + ScoreUnit ELSE score)

\* as _calculate_suspicious_score, but normalised by a remainder, not by min
_calculate_suspicious_score_wrapped(info, data) ==
    LET apk_name_lower == Lower(Get(info, "name", PyStr(<<>>)).val)
        keyword_score == _count_keywords(apk_name_lower, 1, 0)
        permissions == Get(data, "Permissions", PyList(<<>>))
        dangerous_perms == _extract_dangerous_permissions(permissions)
        score == keyword_score + Len(dangerous_perms) * (ScoreUnit \div 2)
    IN  ((score * 2) \div ScoreUnit) % 11

\* as _calculate_suspicious_score, but without the min(..., 10)
_calculate_suspicious_score_uncapped(info, data) ==
    LET apk_name_lower == Lower(Get(info, "name", PyStr(<<>>)).val)
        keyword_score == _count_keywords(apk_name_lower, 1, 0)
        permissions == Get(data, "Permissions", PyList(<<>>))
        dangerous_perms == _extract_dangerous_permissions(permissions)
        score == keyword_score + Len(dangerous_perms) * (ScoreUnit \div 2)
    IN  (score * 2) \div ScoreUnit

_calculate_suspicious_score(info, data) ==
    LET apk_name_lower == Lower(Get(info, "name", PyStr(<<>>)).val)
        keyword_score == _count_keywords(apk_name_lower, 1, 0)
        permissions == Get(data, "Permissions", PyList(<<>>))
        dangerous_perms == _extract_dangerous_permissions(permissions)
        \* score += len(dangerous_perms) * 0.5
        score == keyword_score + Len(dangerous_perms) * (ScoreUnit \div 2)
    IN  \* min(int(score * 2), 10)
        Min((score * 2) \div ScoreUnit, 10)

\* the call raises: an argument has no get(), the name has no lower(), or
\* the extraction raises
_score_raises(info, data) ==
    \/ ~IsDict(info)
    \/ ~IsStr(Get(info, "name", PyStr(<<>>)))
    \/ ~IsDict(data)
    \/ _extract_raises(Get(data, "Permissions", PyList(<<>>)))

----------------------------------------------------------------------------
(* ReportComposer._generate_warnings.                                       *)

\* the keyword loop, from table entry i on: the first keyword that occurs
\* in the name appends one warning and breaks
RECURSIVE _warn_keyword(_, _, _)
\* the place of the first occurrence of k in s, which contains it
FirstOccurrence(s, k) ==
    CHOOSE i \in 0..(Len(s) - Len(k)) :
        /\ \A j \in 1..Len(k) : s[i + j] = k[j]
        /\ \A h \in 0..(i - 1) : \E j \in 1..Len(k) : s[h + j] # k[j]

\* as _warn_keyword, but the warning names the keyword that occurs first
\* in the name
_warn_keyword_by_occurrence(apk_name_lower, i, warnings) ==
    LET hits == {j \in i..Len(suspicious_keywords) :
                    Contains(apk_name_lower, suspicious_keywords[j])}
    IN  IF hits = {} THEN warnings
        ELSE Append(warnings,
                    [rule |-> "suspicious_keyword",
                     keyword |-> suspicious_keywords[
                         CHOOSE j \in hits : \A h \in hits :
                             FirstOccurrence(apk_name_lower, suspicious_keywords[j])
                                 <= FirstOccurrence(apk_name_lower, suspicious_keywords[h])]])

\* as _warn_keyword, but without the break: a warning for every keyword
RECURSIVE _warn_keyword_no_break(_, _, _)
_warn_keyword_no_break(apk_name_lower, i, warnings) ==
    IF i > Len(suspicious_keywords) THEN warnings
    ELSE _warn_keyword_no_break(apk_name_lower, i + 1,
            IF Contains(apk_name_lower, suspicious_keywords[i])
            THEN Append(warnings, [rule |-> "suspicious_keyword",
                                   keyword |-> suspicious_keywords[i]])
            ELSE warnings)

_warn_keyword(apk_name_lower, i, warnings) ==
    IF i > Len(suspicious_keywords) THEN warnings
    ELSE IF Contains(apk_name_lower, suspicious_keywords[i])
         THEN Append(warnings, [rule |-> "suspicious_keyword",
                                keyword |-> suspicious_keywords[i]])
         ELSE _warn_keyword(apk_name_lower, i + 1, warnings)

_generate_warnings(info, data) ==
    LET permissions == Get(data, "Permissions", PyList(<<>>))
        dangerous_perms == _extract_dangerous_permissions(permissions)
        w1 == IF dangerous_perms # <<>>
              THEN <<[rule |-> "dangerous_permissions", n |-> Len(dangerous_perms)]>>
              ELSE <<>>
        apk_name_lower == Lower(Get(info, "name", PyStr(<<>>)).val)
        w2 == _warn_keyword(apk_name_lower, 1, w1)
    IN  IF PyLen(permissions) > 20
        THEN Append(w2, [rule |-> "many_permissions", n |-> PyLen(permissions)])
        ELSE w2

----------------------------------------------------------------------------
(* ReportComposer._assess_security.                                         *)

\* as _risk_level, but with `and` in the place of `or`
_risk_level_and(suspicious_score, dangerous_count) ==
    IF suspicious_score >= 7 /\ dangerous_count >= 3
    THEN [level |-> "high", color |-> "RED"]
    ELSE IF suspicious_score >= 4 /\ dangerous_count >= 1
         THEN [level |-> "medium", color |-> "ORANGE"]
         ELSE [level |-> "low", color |-> "GREEN"]

\* the if / elif / else that sets risk_level and risk_color
_risk_level(suspicious_score, dangerous_count) ==
    IF suspicious_score >= 7 \/ dangerous_count >= 3
    THEN [level |-> "high", color |-> "RED"]
    ELSE IF suspicious_score >= 4 \/ dangerous_count >= 1
         THEN [level |-> "medium", color |-> "ORANGE"]
         ELSE [level |-> "low", color |-> "GREEN"]

_assess_security(info, data) ==
    LET permissions == Get(data, "Permissions", PyList(<<>>))
        dangerous_perms == _extract_dangerous_permissions(permissions)
        suspicious_score == _calculate_suspicious_score(info, data)
        risk == _risk_level(suspicious_score, Len(dangerous_perms))
    IN  [risk_level |-> risk.level,
         risk_color |-> risk.color,
         suspicious_score |-> suspicious_score,
         dangerous_permissions_count |-> Len(dangerous_perms),
         warnings |-> _generate_warnings(info, data)]

----------------------------------------------------------------------------
(* ReportComposer._generate_recommendations.                                *)

\* as _generate_recommendations, but with elif: the first rule that fires
\* is the only one
_generate_recommendations_first_rule(rep) ==
    LET security == rep.security_assessment
    IN  IF security.risk_level = "high"
        THEN <<[text |-> "do_not_install"], [text |-> "check_virustotal"]>>
        ELSE IF security.dangerous_permissions_count > 0
        THEN <<[text |-> "requests_dangerous",
                n |-> security.dangerous_permissions_count],
               [text |-> "reconsider_permissions"]>>
        ELSE IF PyLen(rep.permissions.list) > 25
        THEN <<[text |-> "too_many_permissions"],
               [text |-> "consider_alternatives"]>>
        ELSE <<[text |-> "no_threats_found"]>>

\* as _generate_recommendations, but the reassuring statement is appended
\* whenever the tier is not high
_generate_recommendations_reassuring(rep) ==
    LET security == rep.security_assessment
        r1 == IF security.risk_level = "high"
              THEN <<[text |-> "do_not_install"], [text |-> "check_virustotal"]>>
              ELSE <<>>
        r2 == IF security.dangerous_permissions_count > 0
              THEN r1 \o <<[text |-> "requests_dangerous",
                            n |-> security.dangerous_permissions_count],
                           [text |-> "reconsider_permissions"]>>
              ELSE r1
        r3 == IF PyLen(rep.permissions.list) > 25
              THEN r2 \o <<[text |-> "too_many_permissions"],
                           [text |-> "consider_alternatives"]>>
              ELSE r2
    IN  IF security.risk_level # "high"
        THEN Append(r3, [text |-> "no_threats_found"]) ELSE r3

_generate_recommendations(rep) ==
    LET security == rep.security_assessment
        r1 == IF security.risk_level = "high"
              THEN <<[text |-> "do_not_install"], [text |-> "check_virustotal"]>>
              ELSE <<>>
        r2 == IF security.dangerous_permissions_count > 0
              THEN r1 \o <<[text |-> "requests_dangerous",
                            n |-> security.dangerous_permissions_count],
                           [text |-> "reconsider_permissions"]>>
              ELSE r1
        r3 == IF PyLen(rep.permissions.list) > 25
              THEN r2 \o <<[text |-> "too_many_permissions"],
                           [text |-> "consider_alternatives"]>>
              ELSE r2
    IN  IF r3 = <<>> THEN <<[text |-> "no_threats_found"]>> ELSE r3

----------------------------------------------------------------------------
(* ReportComposer.compose_report.                                           *)

\* the empty dict {} that the except branch returns
EmptyReport == [k \in {} |-> k]
IsEmptyReport(rep) == DOMAIN rep = {}

Unknown == <<"U","n","k","n","o","w","n">>

\* as _metadata, but last_modified is the time of the composition
_metadata_stamps_last_modified(info, clock) ==
    [apk_name |-> Get(info, "name", PyStr(Unknown)),
     apk_path |-> Get(info, "path", PyStr(<<>>)),
     file_size |-> Get(info, "size", PyInt(0)),
     last_modified |-> clock,
     analysis_date |-> clock,
     report_version |-> "1.0"]

_metadata(info, clock) ==
    [apk_name |-> Get(info, "name", PyStr(Unknown)),
     apk_path |-> Get(info, "path", PyStr(<<>>)),
     file_size |-> Get(info, "size", PyInt(0)),
     last_modified |-> Get(info, "last_modified", PyStr(<<>>)),
     analysis_date |-> clock,
     report_version |-> "1.0"]

_permissions(data) ==
    [total |-> PyLen(Get(data, "Permissions", PyList(<<>>))),
     list |-> Get(data, "Permissions", PyList(<<>>)),
     dangerous |-> _extract_dangerous_permissions(Get(data, "Permissions", PyList(<<>>)))]

\* as _statistics, but total_permissions counts the distinct permissions
_statistics_distinct(info, data) ==
    [total_permissions |->
         Cardinality({Items(Get(data, "Permissions", PyList(<<>>)))[i] :
                        i \in 1..PyLen(Get(data, "Permissions", PyList(<<>>)))}),
     dangerous_permissions |->
         Len(_extract_dangerous_permissions(Get(data, "Permissions", PyList(<<>>)))),
     activities |-> PyLen(Get(data, "Intents", PyDict(<<>>))),
     suspicious_score |-> _calculate_suspicious_score(info, data)]

\* as _statistics, but the score is taken before the cap
_statistics_uncapped_score(info, data) ==
    [total_permissions |-> PyLen(Get(data, "Permissions", PyList(<<>>))),
     dangerous_permissions |->
         Len(_extract_dangerous_permissions(Get(data, "Permissions", PyList(<<>>)))),
     activities |-> PyLen(Get(data, "Intents", PyDict(<<>>))),
     suspicious_score |-> _calculate_suspicious_score_uncapped(info, data)]

_statistics(info, data) ==
    [total_permissions |-> PyLen(Get(data, "Permissions", PyList(<<>>))),
     dangerous_permissions |->
         Len(_extract_dangerous_permissions(Get(data, "Permissions", PyList(<<>>)))),
     activities |-> PyLen(Get(data, "Intents", PyDict(<<>>))),
     suspicious_score |-> _calculate_suspicious_score(info, data)]

\* an exception is raised inside the try block
_compose_raises(info, data) ==
    \/ ~IsDict(info)
    \/ ~IsDict(data)
    \/ ~HasLen(Get(data, "Permissions", PyList(<<>>)))
    \/ _extract_raises(Get(data, "Permissions", PyList(<<>>)))
    \/ ~HasLen(Get(data, "Intents", PyDict(<<>>)))
    \/ _score_raises(info, data)

compose_report(info, data, clock) ==
    IF _compose_raises(info, data) THEN EmptyReport
    ELSE LET base == [metadata |-> _metadata(info, clock),
                      permissions |-> _permissions(data),
                      intents |-> Get(data, "Intents", PyDict(<<>>)),
                      security_assessment |-> _assess_security(info, data),
                      recommendations |-> <<>>,
                      statistics |-> _statistics(info, data)]
         IN  [base EXCEPT !.recommendations = _generate_recommendations(base)]

----------------------------------------------------------------------------
(* Paths and times, as strings.                                             *)

\* the positions of a character in a string
Positions(s, c) == {i \in 1..Len(s) : s[i] = c}
Last(S) == CHOOSE i \in S : \A j \in S : j <= i

\* s without the slashes at its end
RECURSIVE StripSlashes(_)
StripSlashes(s) ==
    IF s # <<>> /\ s[Len(s)] = "/" THEN StripSlashes(SubSeq(s, 1, Len(s) - 1))
    ELSE s

\* os.path.basename: what follows the last slash
basename(path) ==
    IF Positions(path, "/") = {} THEN path
    ELSE SubSeq(path, Last(Positions(path, "/")) + 1, Len(path))

\* os.path.dirname: what precedes the last slash, without the slashes at
\* its end unless it consists of slashes
dirname(path) ==
    IF Positions(path, "/") = {} THEN <<>>
    ELSE LET head == SubSeq(path, 1, Last(Positions(path, "/")))
         IN  IF StripSlashes(head) = <<>> THEN head ELSE StripSlashes(head)

\* os.path.splitext(name)[0] of a name without slashes: the name up to its
\* last dot, the dots that begin the name not counting as the last
splitext_root(name) ==
    LET dots == {i \in Positions(name, ".") : \E j \in 1..(i - 1) : name[j] # "."}
    IN  IF dots = {} THEN name ELSE SubSeq(name, 1, Last(dots) - 1)

\* os.path.join(a, b), b not beginning with a slash
join(a, b) ==
    IF a = <<>> THEN b
    ELSE IF a[Len(a)] = "/" THEN a \o b
    ELSE a \o <<"/">> \o b

Digit == <<"0", "1", "2", "3", "4", "5", "6", "7", "8", "9">>

\* the decimal digits of a natural number
RECURSIVE Decimal(_)
Decimal(n) ==
    IF n < 10 THEN <<Digit[n + 1]>> ELSE Decimal(n \div 10) \o <<Digit[(n % 10) + 1]>>

\* datetime.now().strftime(...) in a format of one-second resolution: the
\* clock counts the seconds, and the string tells the second
strftime(clock) == Decimal(clock)

----------------------------------------------------------------------------
(* The serializers: what each writes into the file, and when it raises.     *)

\* report.get(key, default), the report being a dict built by the composer
RGet(rep, key, default) == IF key \in DOMAIN rep THEN rep[key] ELSE default

\* {}, the default of the nested get() calls
EmptyDict == [k \in {} |-> k]

\* json.dump raises TypeError on a value that JSON has no form for: of the
\* values of a report, a set in permissions.list
JsonSerializable(rep) ==
    RGet(RGet(rep, "permissions", EmptyDict), "list", PyList(<<>>)).type # "set"

\* the order in which compose_report inserts the keys of a report, which is
\* the order in which json.dump writes them
KeyOrder ==
    <<"metadata", "permissions", "intents", "security_assessment",
      "recommendations", "statistics">>

\* as json_dump, but a report without keys is written as null
json_dump_null_for_empty(rep) ==
    LET keys == SelectSeq(KeyOrder, LAMBDA k : k \in DOMAIN rep)
    IN  IF keys = <<>> THEN <<[token |-> "null"]>>
        ELSE <<[token |-> "{"]>>
                 \o [i \in 1..Len(keys) |->
                        [token |-> "member", key |-> keys[i], value |-> rep[keys[i]]]]
                 \o <<[token |-> "}"]>>

\* json.dump(report, f): the text of the file: an object, that is, a brace,
\* the members in the order of the keys, and the closing brace; {} for a
\* dict without keys. A member is written with the value of its key: of the
\* values that a report holds JSON has a form for each but a set
\* (JsonSerializable), and reads each back as it was.
json_dump(rep) ==
    LET keys == SelectSeq(KeyOrder, LAMBDA k : k \in DOMAIN rep)
    IN  <<[token |-> "{"]>>
            \o [i \in 1..Len(keys) |->
                   [token |-> "member", key |-> keys[i], value |-> rep[keys[i]]]]
            \o <<[token |-> "}"]>>

\* _save_json: json.dump(report): the whole report, nested as it is, and
\* the text that the file holds
_save_json(rep) == [format |-> "json", document |-> rep, text |-> json_dump(rep)]

\* a dict without one key
Without(d, key) == [k \in DOMAIN d \ {key} |-> d[k]]

\* _save_csv: the metadata rows, the permission count and list, the
\* security assessment without risk_color, and the recommendations
_save_csv(rep) ==
    LET permissions == RGet(RGet(rep, "permissions", EmptyDict), "list", PyList(<<>>))
    IN  [format |-> "csv",
         metadata |-> RGet(rep, "metadata", EmptyDict),
         permissions_count |-> PyLen(permissions),
         permissions |-> permissions,
         security_assessment |->
             Without(RGet(rep, "security_assessment", EmptyDict), "risk_color"),
         recommendations |-> RGet(rep, "recommendations", <<>>)]

\* _save_txt: the metadata without report_version, the permission total,
\* the dangerous permissions, the permission list, risk level, score and
\* warnings, the recommendations, three statistics, and the time of writing
_save_txt(rep, clock) ==
    LET permissions == RGet(rep, "permissions", EmptyDict)
        security == RGet(rep, "security_assessment", EmptyDict)
        stats == RGet(rep, "statistics", EmptyDict)
    IN  [format |-> "txt",
         metadata |-> Without(RGet(rep, "metadata", EmptyDict), "report_version"),
         total |-> RGet(permissions, "total", 0),
         dangerous |-> RGet(permissions, "dangerous", <<>>),
         permissions |-> RGet(permissions, "list", PyList(<<>>)),
         risk_level |-> RGet(security, "risk_level", "unknown"),
         suspicious_score |-> RGet(security, "suspicious_score", 0),
         warnings |-> RGet(security, "warnings", <<>>),
         recommendations |-> RGet(rep, "recommendations", <<>>),
         total_permissions |-> RGet(stats, "total_permissions", 0),
         dangerous_permissions |-> RGet(stats, "dangerous_permissions", 0),
         activities |-> RGet(stats, "activities", 0),
         generated |-> clock]

\* _save_html: the name, the analysis date, the risk level, the permission
\* total, every permission with its class (`dangerous` if it contains an
\* entry of the composer's table), and the recommendations
_save_html(rep) ==
    LET metadata == RGet(rep, "metadata", EmptyDict)
        permissions == RGet(rep, "permissions", EmptyDict)
        list == Items(RGet(permissions, "list", PyList(<<>>)))
    IN  [format |-> "html",
         apk_name |-> RGet(metadata, "apk_name", PyStr(Unknown)),
         analysis_date |-> RGet(metadata, "analysis_date", "Unknown"),
         risk_level |->
             RGet(RGet(rep, "security_assessment", EmptyDict), "risk_level", "unknown"),
         total |-> RGet(permissions, "total", 0),
         permissions |->
             [i \in 1..Len(list) |->
                 [perm |-> list[i],
                  class |-> IF \E j \in DOMAIN dangerous_permissions :
                                   Contains(Lower(list[i].val),
                                            Lower(dangerous_permissions[j]))
                            THEN "dangerous" ELSE ""]],
         recommendations |-> RGet(rep, "recommendations", <<>>)]

\* what the serializer of a format writes
Serialize(fmt, rep, clock) ==
    CASE fmt = "json" -> _save_json(rep)
      [] fmt = "csv" -> _save_csv(rep)
      [] fmt = "txt" -> _save_txt(rep, clock)
      [] fmt = "html" -> _save_html(rep)

\* the file that json.dump leaves when it raises: opened, not completed
Truncated(fmt) == [format |-> fmt, truncated |-> TRUE]

----------------------------------------------------------------------------
(* ReportComposer.save_report.                                              *)

\* the characters of the names of the formats
FormatChars ==
    [json |-> <<"j","s","o","n">>, csv |-> <<"c","s","v">>,
     txt |-> <<"t","x","t">>, html |-> <<"h","t","m","l">>]

\* as ReportPath, but the name of the file has no timestamp
ReportPath_without_timestamp(reports_dir, apk_name, timestamp, fmt) ==
    join(reports_dir, apk_name \o <<".">> \o FormatChars[fmt])

\* os.path.join(self.reports_dir, f"{apk_name}_{timestamp}.{fmt}")
ReportPath(reports_dir, apk_name, timestamp, fmt) ==
    join(reports_dir, apk_name \o <<"_">> \o timestamp \o <<".">> \o FormatChars[fmt])

InSeq(x, seq) == \E i \in DOMAIN seq : seq[i] = x

\* one more entry of a mapping
Put(f, key, value) == [k \in DOMAIN f \cup {key} |-> IF k = key THEN value ELSE f[k]]

\* as _save_loop, but an unsupported format ends the loop
RECURSIVE _save_loop_stops_at_unsupported(_, _, _, _, _, _, _, _)
_save_loop_stops_at_unsupported(rep, apk_name, formats, i, timestamp, env, disk, saved) ==
    IF i > Len(formats) THEN [files |-> disk, saved_files |-> saved]
    ELSE LET fmt == formats[i]
             file_path == ReportPath(env.reports_dir, apk_name, timestamp, fmt)
             rest(d, s) == _save_loop_stops_at_unsupported(rep, apk_name, formats, i + 1,
                                                          timestamp, env, d, s)
         IN  IF ~InSeq(fmt, supported_formats)
             THEN [files |-> disk, saved_files |-> saved]
             ELSE IF fmt \in env.failing THEN rest(disk, saved)
             ELSE IF fmt = "json" /\ ~JsonSerializable(rep)
             THEN rest(Put(disk, file_path, Truncated(fmt)), saved)
             ELSE rest(Put(disk, file_path, Serialize(fmt, rep, env.during)),
                       Put(saved, fmt, file_path))

\* as _save_loop, but a format that fails ends the loop
RECURSIVE _save_loop_stops_at_failure(_, _, _, _, _, _, _, _)
_save_loop_stops_at_failure(rep, apk_name, formats, i, timestamp, env, disk, saved) ==
    IF i > Len(formats) THEN [files |-> disk, saved_files |-> saved]
    ELSE LET fmt == formats[i]
             file_path == ReportPath(env.reports_dir, apk_name, timestamp, fmt)
             rest(d, s) == _save_loop_stops_at_failure(rep, apk_name, formats, i + 1,
                                                      timestamp, env, d, s)
         IN  IF ~InSeq(fmt, supported_formats) THEN rest(disk, saved)
             ELSE IF fmt \in env.failing
             THEN [files |-> disk, saved_files |-> saved]
             ELSE IF fmt = "json" /\ ~JsonSerializable(rep)
             THEN [files |-> Put(disk, file_path, Truncated(fmt)), saved_files |-> saved]
             ELSE rest(Put(disk, file_path, Serialize(fmt, rep, env.during)),
                       Put(saved, fmt, file_path))

\* as _save_loop, but the timestamp is taken again for every format after
\* the first
RECURSIVE _save_loop_restamps(_, _, _, _, _, _, _, _)
_save_loop_restamps(rep, apk_name, formats, i, timestamp, env, disk, saved) ==
    IF i > Len(formats) THEN [files |-> disk, saved_files |-> saved]
    ELSE LET fmt == formats[i]
             file_path == ReportPath(env.reports_dir, apk_name, timestamp, fmt)
             rest(d, s) == _save_loop_restamps(rep, apk_name, formats, i + 1,
                                              strftime(env.during), env, d, s)
         IN  IF ~InSeq(fmt, supported_formats) THEN rest(disk, saved)
             ELSE IF fmt \in env.failing THEN rest(disk, saved)
             ELSE IF fmt = "json" /\ ~JsonSerializable(rep)
             THEN rest(Put(disk, file_path, Truncated(fmt)), saved)
             ELSE rest(Put(disk, file_path, Serialize(fmt, rep, env.during)),
                       Put(saved, fmt, file_path))

\* the loop over the formats, from format i on; disk is the files on the
\* disk and saved the mapping built so far. An unsupported format is
\* skipped; open() raises for the formats of fail, and nothing is written;
\* json.dump raises on a report that is not serializable, and leaves the
\* file it has opened; both are caught and the loop goes on.
RECURSIVE _save_loop(_, _, _, _, _, _, _, _)
_save_loop(rep, apk_name, formats, i, timestamp, env, disk, saved) ==
    IF i > Len(formats) THEN [files |-> disk, saved_files |-> saved]
    ELSE LET fmt == formats[i]
             file_path == ReportPath(env.reports_dir, apk_name, timestamp, fmt)
         IN  IF ~InSeq(fmt, supported_formats)
             THEN _save_loop(rep, apk_name, formats, i + 1, timestamp, env, disk, saved)
             ELSE IF fmt \in env.failing
             THEN _save_loop(rep, apk_name, formats, i + 1, timestamp, env, disk, saved)
             ELSE IF fmt = "json" /\ ~JsonSerializable(rep)
             THEN _save_loop(rep, apk_name, formats, i + 1, timestamp, env,
                             Put(disk, file_path, Truncated(fmt)), saved)
             ELSE _save_loop(rep, apk_name, formats, i + 1, timestamp, env,
                             Put(disk, file_path, Serialize(fmt, rep, env.during)),
                             Put(saved, fmt, file_path))

\* formats = None: the formats that save_report takes then
DefaultFormats == <<"json", "txt">>

\* save_report(report, apk_name, formats): the timestamp is taken once,
\* before the loop; the result is the disk after the call and the mapping
\* returned. env holds reports_dir, the clock when the call begins, the
\* clock during the loop, which _save_txt reads again, and the failing
\* formats.
save_report(rep, apk_name, formats, env, disk) ==
    _save_loop(rep, apk_name, formats, 1, strftime(env.clock), env, disk, EmptyDict)

----------------------------------------------------------------------------
(* ReportComposer.get_report_preview.                                       *)

\* seq[:n]
Take(seq, n) == SubSeq(seq, 1, IF Len(seq) < n THEN Len(seq) ELSE n)

\* get_report_preview(report): what the column shows: the risk level in
\* its colour, the score, the permission total and the number of the
\* dangerous ones, the first three warnings, highlighted if there are
\* any, and the first three recommendations
get_report_preview(rep) ==
    LET security == RGet(rep, "security_assessment", EmptyDict)
        permissions == RGet(rep, "permissions", EmptyDict)
    IN  [risk_color |-> RGet(security, "risk_color", "BLACK"),
         risk_level |-> RGet(security, "risk_level", "unknown"),
         suspicious_score |-> RGet(security, "suspicious_score", 0),
         total |-> RGet(permissions, "total", 0),
         dangerous |-> Len(RGet(permissions, "dangerous", <<>>)),
         warnings |-> Take(RGet(security, "warnings", <<>>), 3),
         highlighted |-> RGet(security, "warnings", <<>>) # <<>>,
         recommendations |-> Take(RGet(rep, "recommendations", <<>>), 3)]

----------------------------------------------------------------------------
(* What the methods of the composer do to the objects they are given.       *)

\* as ReportAfterSave, but the txt serializer removes report_version from
\* the metadata in the place of skipping it
ReportAfterSave_pops_version(rep, formats) ==
    IF InSeq("txt", formats) /\ "metadata" \in DOMAIN rep
    THEN [rep EXCEPT !.metadata = Without(@, "report_version")]
    ELSE rep

\* the report after save_report(report, apk_name, formats): the method and
\* the four serializers read it through get(), items(), len() and
\* iteration, and json.dump reads it; none assigns to it or to a part of it
ReportAfterSave(rep, formats) == rep

\* the report after get_report_preview(report): the method reads it
\* through get() and slices, which copy
ReportAfterPreview(rep) == rep

\* the arguments after compose_report(apk_info, analysis_data): the method
\* reads them through get(), len() and iteration; lower() returns a new
\* string; the report refers to the Permissions and Intents objects of
\* analysis_data, and nothing is assigned to them
ArgumentsAfterCompose(info, data) == [apk_info |-> info, analysis_data |-> data]

----------------------------------------------------------------------------
(* apk_analyzer: analyze_apk and process_apk.                               *)

\* the demo data that analyze_apk returns without androguard
DemoPermissions ==
    PyList(<< PyStr(<<"a","n","d","r","o","i","d",".","p","e","r","m","i","s","s","i","o","n",".","I","N","T","E","R","N","E","T">>),
              PyStr(<<"a","n","d","r","o","i","d",".","p","e","r","m","i","s","s","i","o","n",".","A","C","C","E","S","S","_","N","E","T","W","O","R","K","_","S","T","A","T","E">>),
              PyStr(<<"a","n","d","r","o","i","d",".","p","e","r","m","i","s","s","i","o","n",".","R","E","A","D","_","E","X","T","E","R","N","A","L","_","S","T","O","R","A","G","E">>) >>)

DemoIntents ==
    PyDict([k \in {"com.example.MainActivity"} |->
               [actions |-> <<"android.intent.action.MAIN">>,
                categories |-> <<"android.intent.category.LAUNCHER">>,
                data |-> <<>>]])

\* `x or []` for a list or None
OrEmptyList(x) == IF x = PyNone \/ x.val = <<>> THEN PyList(<<>>) ELSE x

\* analyze_apk(apk_path): the demo data without androguard; with it, what
\* androguard finds in the package: its permissions, or [] for none, and a
\* descriptor for each of its activities; or ([], {}) when androguard raises.
\* androguard is what parses the package: `outcome` is what it does.
analyze_apk(androguard, outcome) ==
    IF ~androguard
    THEN [permissions |-> DemoPermissions, intents |-> DemoIntents]
    ELSE IF outcome.raises
    THEN [permissions |-> PyList(<<>>), intents |-> PyDict(<<>>)]
    ELSE [permissions |-> OrEmptyList(outcome.permissions),
          intents |-> PyDict([a \in outcome.activities |-> outcome.filters])]

\* process_apk(apk_path): the list of one entry that holds the facts
process_apk(path, androguard, outcome) ==
    << PyDict([APK |-> PyStr(basename(path)),
               Path |-> PyStr(path),
               Permissions |-> analyze_apk(androguard, outcome).permissions,
               Intents |-> analyze_apk(androguard, outcome).intents]) >>

----------------------------------------------------------------------------
(* interface: APKAnalyzerApp.determine_maliciousness.                       *)

\* the tables of the application: the same words and the same names, in
\* the same order, as the tables of the composer
SUSPICIOUS_WORDS == suspicious_keywords
DANGEROUS_PERMISSIONS == dangerous_permissions

\* the loop over the words, from word i on; the count is kept in units of
\* 1/ScoreUnit, as the loop over the permissions adds halves to it
RECURSIVE _count_words(_, _, _)
_count_words(apk_name_lower, i, suspicious_count) ==
    IF i > Len(SUSPICIOUS_WORDS) THEN suspicious_count
    ELSE _count_words(apk_name_lower, i + 1,
            IF Contains(apk_name_lower, SUSPICIOUS_WORDS[i])
            THEN suspicious_count + ScoreUnit ELSE suspicious_count)

\* as _count_table, but half a point for every permission that contains
\* the entry
RECURSIVE _count_table_per_permission(_, _, _)
_count_table_per_permission(permissions, j, suspicious_count) ==
    IF j > Len(DANGEROUS_PERMISSIONS) THEN suspicious_count
    ELSE _count_table_per_permission(permissions, j + 1,
            suspicious_count
              + (ScoreUnit \div 2)
                  * Cardinality({i \in DOMAIN permissions :
                        Contains(Lower(permissions[i].val),
                                 Lower(DANGEROUS_PERMISSIONS[j]))}))

\* the loop over the table, from entry j on: half a point for an entry
\* that any of the permissions contains
RECURSIVE _count_table(_, _, _)
_count_table(permissions, j, suspicious_count) ==
    IF j > Len(DANGEROUS_PERMISSIONS) THEN suspicious_count
    ELSE _count_table(permissions, j + 1,
            IF \E i \in DOMAIN permissions :
                  Contains(Lower(permissions[i].val), Lower(DANGEROUS_PERMISSIONS[j]))
            THEN suspicious_count + (ScoreUnit \div 2) ELSE suspicious_count)

\* `if permissions:` is true of a list that is not empty
Truthy(v) == v # PyNone /\ v.val # <<>>

\* as determine_maliciousness, but the level is high from a tally of 3
determine_maliciousness_high_from_three(apk_name, permissions) ==
    LET apk_name_lower == Lower(apk_name.val)
        words == _count_words(apk_name_lower, 1, 0)
        suspicious_count ==
            IF Truthy(permissions) THEN _count_table(Items(permissions), 1, words)
            ELSE words
    IN  IF suspicious_count >= 3 * ScoreUnit
        THEN [risk_level |-> "vysokaya", color |-> "RED"]
        ELSE IF suspicious_count >= 1 * ScoreUnit
        THEN [risk_level |-> "srednyaya", color |-> "ORANGE"]
        ELSE [risk_level |-> "nizkaya", color |-> "GREEN"]

\* determine_maliciousness(apk_name, permissions): the level and the
\* colour. The levels are "vysokaya" (high), "srednyaya" (medium) and
\* "nizkaya" (low).
determine_maliciousness(apk_name, permissions) ==
    LET apk_name_lower == Lower(apk_name.val)
        words == _count_words(apk_name_lower, 1, 0)
        suspicious_count ==
            IF Truthy(permissions) THEN _count_table(Items(permissions), 1, words)
            ELSE words
    IN  IF suspicious_count >= 2 * ScoreUnit
        THEN [risk_level |-> "vysokaya", color |-> "RED"]
        ELSE IF suspicious_count >= 1 * ScoreUnit
        THEN [risk_level |-> "srednyaya", color |-> "ORANGE"]
        ELSE [risk_level |-> "nizkaya", color |-> "GREEN"]

----------------------------------------------------------------------------
(* The inputs.                                                              *)

SeqsUpTo(S, n) == UNION {[1..k -> S] : k \in 0..n}

RECURSIVE Concat(_)
Concat(parts) == IF parts = <<>> THEN <<>> ELSE Head(parts) \o Concat(Tail(parts))

NameParts ==
    { <<"F","r","e","e","P","r","e","m","i","u","m","H","a","c","k">>,
      <<"R","O","O","T","b","o","t">>,
      <<"C","l","e","a","n","A","p","p">>,
      <<".","a","p","k">> }

Names == {Concat(parts) : parts \in SeqsUpTo(NameParts, MaxNameParts)}

INTERNET == <<"I","N","T","E","R","N","E","T">>
READ_SMS ==
    <<"a","n","d","r","o","i","d",".","p","e","r","m","i","s","s","i","o","n",
      ".","R","E","A","D","_","S","M","S">>
\* a lower-case spelling that contains two entries of the table
camera_record_audio ==
    <<"c","a","m","e","r","a","_","r","e","c","o","r","d","_","a","u","d","i","o">>

PermPool == {PyStr(INTERNET), PyStr(READ_SMS), PyStr(camera_record_audio)}

PermLists == {PyList(perms) : perms \in SeqsUpTo(PermPool, MaxPerms)}

\* an intent-filter descriptor, as analyze_apk builds it
MainFilter ==
    [actions |-> <<"android.intent.action.MAIN">>,
     categories |-> <<"android.intent.category.LAUNCHER">>,
     data |-> <<>>]

IntentMaps == {PyDict(<<>>), PyDict([MainActivity |-> MainFilter])}

\* file descriptors as analyze_single_apk and save_to_csv build them: with
\* all four keys, or with the name alone; and the descriptor without keys
WellFormedInfos ==
    {PyDict([name |-> PyStr(n), path |-> PyStr(<<"/">> \o n),
             size |-> PyInt(1024), last_modified |-> PyStr(<<"t">>)]) : n \in Names}
    \cup {PyDict([name |-> PyStr(n)]) : n \in {Concat(<<p>>) : p \in NameParts}}
    \cup {PyDict(<<>>)}

WellFormedData ==
    {PyDict([Permissions |-> perms, Intents |-> intents]) :
        perms \in PermLists, intents \in IntentMaps}
    \cup {PyDict(<<>>)}

\* a list of n permissions, the first `dangerous` of them dangerous
ManyPermissions(n, dangerous) ==
    PyList([i \in 1..n |-> IF i <= dangerous THEN PyStr(READ_SMS) ELSE PyStr(INTERNET)])

\* package facts with long permission lists: at and above the lengths that
\* the warning rule (20) and the recommendation rule (25) compare with,
\* without and with dangerous permissions
LongData ==
    {PyDict([Permissions |-> ManyPermissions(n, 0)]) : n \in {20, 21, 25, 26}}
    \cup {PyDict([Permissions |-> ManyPermissions(21, 1)]),
          PyDict([Permissions |-> ManyPermissions(26, 3)])}

\* file descriptors with the name alone, and the descriptor without keys
NamedInfos ==
    {PyDict(<<>>)} \cup {PyDict([name |-> PyStr(n)]) : n \in {Concat(<<p>>) : p \in NameParts}}

\* malformed arguments: not a mapping, or a name that is not a string
MalformedInfos ==
    {PyNone, PyList(<<>>), PyStr(<<"x">>),
     PyDict([name |-> PyNone]), PyDict([name |-> PyInt(7)])}

\* malformed arguments: not a mapping; Permissions that is no sequence of
\* strings (no sequence at all, a list with an element that is no string, a
\* set of strings); Intents that is no mapping (without or with a length)
MalformedData ==
    {PyNone, PyList(<<>>),
     PyDict([Permissions |-> PyNone]),
     PyDict([Permissions |-> PyInt(3)]),
     PyDict([Permissions |-> PyList(<<PyStr(READ_SMS), PyNone>>)]),
     PyDict([Permissions |-> PyList(<<PyInt(1)>>)]),
     PyDict([Permissions |-> PySet(<<PyStr(READ_SMS)>>)]),
     PyDict([Permissions |-> PySet(<<PyStr(INTERNET), PyStr(camera_record_audio)>>)]),
     PyDict([Intents |-> PyNone]),
     PyDict([Intents |-> PyInt(0)]),
     PyDict([Permissions |-> PyList(<<PyStr(READ_SMS)>>), Intents |-> PyNone])}

\* the value of `report` before compose_report has returned
NoReport == [none |-> TRUE]
\* the value of `earlier` while compose_report has been called once at most
NoEarlier == [none |-> TRUE]
\* the value of `result` before analyze_single_apk has been called
NoResult == [kind |-> "none", value |-> <<>>]
\* the value of `AnalyzeAPK` where androguard is not imported
NotImported == [raises |-> TRUE, permissions |-> PyNone, activities |-> {}, filters |-> <<>>]

\* the value of `dialog` while no dialog is open
NoDialog == [none |-> TRUE]

\* the application is not started and save_report is called by one caller
\* at a time: no call in progress, no list, no dialog
NoApplication ==
    /\ calls = <<>>
    /\ apk_list_view = <<>>
    /\ file_count_text = 0
    /\ dialog = NoDialog
    /\ mtime = <<>>

\* analyze_single_apk is not called: no package, no call, no file
NoPipeline ==
    /\ ANDROGUARD_AVAILABLE = FALSE
    /\ REPORT_COMPOSER_AVAILABLE = TRUE
    /\ packages = <<>>
    /\ AnalyzeAPK = NotImported
    /\ apk_path = <<>>
    /\ output_dir = PyNone
    /\ failing = {}
    /\ dirs = {}
    /\ files = <<>>
    /\ saved_files = <<>>
    /\ result = NoResult
    /\ runs = 0
    /\ NoApplication

----------------------------------------------------------------------------
(* The composer called on its own: compose_report on any two arguments.     *)

InitCompose ==
    /\ pc = "start"
    /\ \/ apk_info \in WellFormedInfos /\ analysis_data \in WellFormedData
       \/ apk_info \in MalformedInfos
          /\ analysis_data \in MalformedData \cup {PyDict(<<>>)}
       \/ apk_info \in NamedInfos /\ analysis_data \in MalformedData
       \/ apk_info \in NamedInfos /\ analysis_data \in LongData
    /\ report = NoReport
    /\ earlier = NoEarlier
    /\ now = 0
    /\ NoPipeline

ComposeReport ==
    /\ pc = "start"
    /\ report' = compose_report(apk_info, analysis_data, now)
    /\ pc' = "composed"
    /\ UNCHANGED <<apk_info, analysis_data, earlier, now, environment, pipeline>>
    /\ UNCHANGED application

NextCompose == ComposeReport

SpecCompose == InitCompose /\ [][NextCompose]_vars

----------------------------------------------------------------------------
(* The composer called twice in a row, on any two pairs of well-formed      *)
(* arguments: the same composer object serves both calls.                   *)

PairNames ==
    {Concat(parts) :
        parts \in SeqsUpTo({ <<"F","r","e","e","P","r","e","m","i","u","m","H","a","c","k">>,
                             <<"R","O","O","T","b","o","t">> }, MaxNameParts)}

PairInfos == {PyDict([name |-> PyStr(n)]) : n \in PairNames}

\* lists of dangerous permissions of every length, and a harmless list
PairData ==
    {PyDict([Permissions |-> PyList(perms)]) :
        perms \in SeqsUpTo({PyStr(READ_SMS)}, MaxPerms) \cup {<<PyStr(INTERNET)>>}}

InitPair ==
    /\ pc = "start"
    /\ apk_info \in PairInfos
    /\ analysis_data \in PairData
    /\ report = NoReport
    /\ earlier = NoEarlier
    /\ now = 0
    /\ NoPipeline

\* the next call of compose_report, on new arguments
ComposeAgain ==
    /\ pc = "composed"
    /\ earlier' = [apk_info |-> apk_info, analysis_data |-> analysis_data,
                   report |-> report]
    /\ apk_info' \in PairInfos
    /\ analysis_data' \in PairData
    /\ report' = compose_report(apk_info', analysis_data', now)
    /\ pc' = "composed_again"
    /\ UNCHANGED <<now, environment, pipeline>>
    /\ UNCHANGED application

NextPair == ComposeReport \/ ComposeAgain

SpecPair == InitPair /\ [][NextPair]_vars

----------------------------------------------------------------------------
(* The analysis pipeline: analyze_single_apk called on the packages of a    *)
(* disk, while the clock advances.                                          *)

analysis_reports == <<"a","n","a","l","y","s","i","s","_","r","e","p","o","r","t","s">>

\* os.getcwd(): the working directory of the process
getcwd == <<"/", "c", "w", "d">>

\* ReportComposer(output_dir): the directory of the reports, under
\* output_dir, or under the working directory for an empty output_dir
ReportComposer(out) ==
    [reports_dir |-> join(IF out = <<>> THEN getcwd ELSE out, analysis_reports)]

\* analyze_single_apk(apk_path, output_dir) from the state st of the module,
\* the disk and the clock: the value returned or the exception raised, the
\* directories and the files after the call, and the composition made.
\* process_apk returns a list of one entry on every path, so the branches
\* are those of REPORT_COMPOSER_AVAILABLE; without the composer the names
\* save_to_csv and save_to_json are not bound, and the call of the first
\* raises NameError.
analyze_single_apk(path, out, st) ==
    LET unchanged == [dirs |-> st.dirs, files |-> st.files,
                      saved_files |-> st.saved_files, composed |-> FALSE,
                      apk_info |-> PyNone, analysis_data |-> PyNone,
                      report |-> EmptyReport]
    IN  IF path \notin DOMAIN st.packages
        THEN unchanged @@ [result |-> [kind |-> "returned", value |-> PyNone]]
        ELSE LET dir == IF out = PyNone
                        THEN (IF dirname(path) = <<>> THEN <<".">> ELSE dirname(path))
                        ELSE out.val
                 data == process_apk(path, st.androguard, st.outcome)
             IN  IF st.composer
                 THEN LET apk_name == splitext_root(basename(path))
                          composer_ == ReportComposer(dir)
                          info == PyDict([name |-> Get(data[1], "APK", PyNone),
                                          path |-> Get(data[1], "Path", PyNone),
                                          size |-> PyInt(st.packages[path]),
                                          last_modified |-> PyStr(strftime(st.clock))])
                          rep == compose_report(info, data[1], st.clock)
                          saved == save_report(rep, apk_name, <<"json", "txt", "csv">>,
                                               [reports_dir |-> composer_.reports_dir,
                                                clock |-> st.clock,
                                                during |-> st.clock,
                                                failing |-> st.failing],
                                               st.files)
                      IN  [dirs |-> st.dirs \cup {composer_.reports_dir},
                           files |-> saved.files,
                           saved_files |-> saved.saved_files,
                           composed |-> TRUE,
                           apk_info |-> info,
                           analysis_data |-> data[1],
                           report |-> rep,
                           result |-> [kind |-> "returned",
                                       value |-> [raw_data |-> data,
                                                  structured_report |-> rep,
                                                  saved_files |-> saved.saved_files]]]
                 ELSE unchanged @@ [result |-> [kind |-> "raised", value |-> "NameError"]]

\* the package files
ApkPaths ==
    { <<"/","s","d","/","m","o","d","h","a","c","k",".","a","p","k">>,
      <<"a",".","b",".","a","p","k">>,
      <<"/",".","a","p","k">> }

\* output_dir: not given, or a directory
OutputDirs == {PyNone, PyStr(<<"/","o","u","t">>)}

\* a disk that holds the packages of S, each with a size in bytes
Disk(S) == [p \in S |-> 512 * Len(p)]

\* what androguard may do with a package: raise; find no permission and no
\* activity; find permissions and the main activity. The permissions are
\* the values of the name attribute of the manifest's uses-permission
\* elements, which is None for an element without the attribute.
Extractions ==
    {[raises |-> TRUE, permissions |-> PyNone, activities |-> {}, filters |-> <<>>],
     [raises |-> FALSE, permissions |-> PyNone, activities |-> {}, filters |-> <<>>]}
    \cup {[raises |-> FALSE, permissions |-> PyList(perms),
           activities |-> {"MainActivity"}, filters |-> MainFilter] :
            perms \in { <<PyStr(INTERNET)>>,
                        <<PyStr(READ_SMS), PyStr(camera_record_audio), PyStr(READ_SMS)>>,
                        <<PyStr(READ_SMS), PyNone>> }}

InitPipeline ==
    /\ pc = "idle"
    /\ apk_info = PyNone
    /\ analysis_data = PyNone
    /\ report = NoReport
    /\ earlier = NoEarlier
    /\ now = 0
    /\ ANDROGUARD_AVAILABLE \in BOOLEAN
    /\ REPORT_COMPOSER_AVAILABLE \in BOOLEAN
    /\ packages \in {Disk(ApkPaths), Disk(ApkPaths \ {<<"a",".","b",".","a","p","k">>})}
    /\ IF ANDROGUARD_AVAILABLE THEN AnalyzeAPK \in Extractions
       ELSE AnalyzeAPK = NotImported
    /\ apk_path = <<>>
    /\ output_dir = PyNone
    /\ failing \in {{}, {"json"}, {"csv"}}
    /\ dirs = {}
    /\ files = <<>>
    /\ saved_files = <<>>
    /\ result = NoResult
    /\ runs = 0
    /\ NoApplication

\* one call of analyze_single_apk
AnalyzeSingleApk ==
    /\ runs < MaxRuns
    /\ \E path \in ApkPaths, out \in OutputDirs :
         \E call \in {analyze_single_apk(path, out,
                         [packages |-> packages,
                          androguard |-> ANDROGUARD_AVAILABLE,
                          composer |-> REPORT_COMPOSER_AVAILABLE,
                          outcome |-> AnalyzeAPK,
                          failing |-> failing,
                          clock |-> now,
                          dirs |-> dirs,
                          files |-> files,
                          saved_files |-> saved_files])} :
             /\ apk_path' = path
             /\ output_dir' = out
             /\ result' = call.result
             /\ dirs' = call.dirs
             /\ files' = call.files
             /\ saved_files' = call.saved_files
             /\ IF call.composed
                THEN /\ apk_info' = call.apk_info
                     /\ analysis_data' = call.analysis_data
                     /\ report' = call.report
                ELSE UNCHANGED <<apk_info, analysis_data, report>>
             /\ pc' = call.result.kind
    /\ runs' = runs + 1
    /\ UNCHANGED <<earlier, now, ANDROGUARD_AVAILABLE, REPORT_COMPOSER_AVAILABLE,
                   packages, AnalyzeAPK, failing>>
    /\ UNCHANGED application

\* a second passes
Tick ==
    /\ now < MaxClock
    /\ now' = now + 1
    /\ UNCHANGED <<pc, composer, environment, pipeline>>
    /\ UNCHANGED application

NextPipeline == AnalyzeSingleApk \/ Tick

SpecPipeline == InitPipeline /\ [][NextPipeline]_vars

----------------------------------------------------------------------------
(* A composer saving and previewing a report: save_report called with any   *)
(* list of formats, some of which cannot be written, while the clock        *)
(* advances, also during a call.                                            *)

\* the directory the composer was constructed on
SaveDir == <<"/","o","u","t">>

\* the base name that save_report is given
BaseName == <<"T","e","s","t">>

\* the formats that a caller names: supported ones and xml, which is not
\* supported (csv is what analyze_single_apk asks for)
RequestedFormats == {"json", "txt", "html", "xml"}

FormatLists == SeqsUpTo(RequestedFormats, MaxFormats)

\* the arguments of the compositions whose report is saved: a package with
\* a dangerous permission; a permission list with None, for which the
\* report is empty; a set of permissions, which json.dump cannot render
SavedCompositions ==
    {[apk_info |-> PyDict([name |-> PyStr(<<"R","O","O","T","b","o","t",".","a","p","k">>)]),
      analysis_data |-> PyDict([Permissions |-> perms])] :
        perms \in {PyList(<<PyStr(READ_SMS), PyStr(INTERNET)>>),
                   PyList(<<PyStr(READ_SMS), PyNone>>),
                   PySet(<<PyStr(READ_SMS)>>)}}

InitSave ==
    /\ pc = "composed"
    /\ \E c \in SavedCompositions :
          /\ apk_info = c.apk_info
          /\ analysis_data = c.analysis_data
          /\ report = compose_report(c.apk_info, c.analysis_data, 0)
    /\ earlier = NoEarlier
    /\ now = 0
    /\ ANDROGUARD_AVAILABLE = FALSE
    /\ REPORT_COMPOSER_AVAILABLE = TRUE
    /\ packages = <<>>
    /\ AnalyzeAPK = NotImported
    /\ apk_path = <<>>
    /\ output_dir = PyStr(SaveDir)
    /\ failing \in {{}, {"txt"}}
    /\ dirs = {ReportComposer(SaveDir).reports_dir}
    /\ files = <<>>
    /\ saved_files = <<>>
    /\ result = NoResult
    /\ runs = 0
    /\ NoApplication

\* one call of save_report(report, BaseName, formats), during which the
\* clock may advance; `result` keeps the call: its arguments, the clock
\* when it began, the disk before it, and the mapping it returned
SaveReport ==
    /\ runs < MaxSaves
    /\ \E formats \in FormatLists, during \in {now, now + 1} :
         /\ during <= MaxClock
         /\ \E saved \in {save_report(report, BaseName, formats,
                              [reports_dir |-> ReportComposer(output_dir.val).reports_dir,
                               clock |-> now,
                               during |-> during,
                               failing |-> failing],
                              files)} :
               /\ files' = saved.files
               /\ saved_files' = saved.saved_files
               /\ result' = [kind |-> "saved",
                             value |-> [report |-> report,
                                        apk_name |-> BaseName,
                                        formats |-> formats,
                                        clock |-> now,
                                        before |-> files,
                                        saved_files |-> saved.saved_files]]
         /\ report' = ReportAfterSave(report, formats)
         /\ now' = during
    /\ runs' = runs + 1
    /\ pc' = "saved"
    /\ UNCHANGED <<apk_info, analysis_data, earlier, environment, dirs>>
    /\ UNCHANGED application

\* one call of get_report_preview(report)
Preview ==
    /\ pc \notin {"start", "previewed"}
    /\ result' = [kind |-> "previewed",
                  value |-> [report |-> report,
                             column |-> get_report_preview(report)]]
    /\ report' = ReportAfterPreview(report)
    /\ pc' = "previewed"
    /\ UNCHANGED <<apk_info, analysis_data, earlier, now, environment,
                   dirs, files, saved_files, runs>>
    /\ UNCHANGED application

NextSave == SaveReport \/ Preview \/ Tick

SpecSave == InitSave /\ [][NextSave]_vars

----------------------------------------------------------------------------
(* One composer over its life: compose_report called again and again, on    *)
(* the same or on other arguments, with save_report and get_report_preview  *)
(* in between, while the clock advances.                                    *)

\* the arguments of the compositions: two names and two permission lists
RecomposeInfos ==
    {PyDict([name |-> PyStr(n)]) :
        n \in { <<"R","O","O","T","b","o","t",".","a","p","k">>, <<"C","l","e","a","n","A","p","p">> }}
RecomposeData ==
    {PyDict([Permissions |-> PyList(perms)]) :
        perms \in { <<PyStr(READ_SMS), PyStr(INTERNET)>>, <<PyStr(READ_SMS), PyNone>> }}

InitRecompose ==
    /\ pc = "start"
    /\ apk_info \in RecomposeInfos
    /\ analysis_data \in RecomposeData
    /\ report = NoReport
    /\ earlier = NoEarlier
    /\ now = 0
    /\ ANDROGUARD_AVAILABLE = FALSE
    /\ REPORT_COMPOSER_AVAILABLE = TRUE
    /\ packages = <<>>
    /\ AnalyzeAPK = NotImported
    /\ apk_path = <<>>
    /\ output_dir = PyStr(SaveDir)
    /\ failing = {}
    /\ dirs = {ReportComposer(SaveDir).reports_dir}
    /\ files = <<>>
    /\ saved_files = <<>>
    /\ result = NoResult
    /\ runs = 0
    /\ NoApplication

\* a further call of compose_report, on any arguments; `earlier` keeps the
\* first composition of the composer, and `result` the arguments as they
\* were passed
Recompose ==
    /\ pc # "start"
    /\ runs < MaxRuns
    /\ \E info \in RecomposeInfos, data \in RecomposeData :
         /\ result' = [kind |-> "composed",
                       value |-> [apk_info |-> info, analysis_data |-> data]]
         /\ report' = compose_report(info, data, now)
         /\ apk_info' = ArgumentsAfterCompose(info, data).apk_info
         /\ analysis_data' = ArgumentsAfterCompose(info, data).analysis_data
    /\ earlier' = IF earlier = NoEarlier
                  THEN [apk_info |-> apk_info, analysis_data |-> analysis_data,
                        report |-> report]
                  ELSE earlier
    /\ runs' = runs + 1
    /\ pc' = "composed_again"
    /\ UNCHANGED <<now, environment, dirs, files, saved_files>>
    /\ UNCHANGED application

\* save_report(report, BaseName), the formats not given
SaveDefault ==
    /\ pc \notin {"start", "saved"}
    /\ \E saved \in {save_report(report, BaseName, DefaultFormats,
                         [reports_dir |-> ReportComposer(output_dir.val).reports_dir,
                          clock |-> now,
                          during |-> now,
                          failing |-> failing],
                         files)} :
          /\ files' = saved.files
          /\ saved_files' = saved.saved_files
          /\ result' = [kind |-> "saved",
                        value |-> [report |-> report,
                                   apk_name |-> BaseName,
                                   formats |-> DefaultFormats,
                                   clock |-> now,
                                   before |-> files,
                                   saved_files |-> saved.saved_files]]
    /\ report' = ReportAfterSave(report, DefaultFormats)
    /\ pc' = "saved"
    /\ UNCHANGED <<apk_info, analysis_data, earlier, now, environment, dirs, runs>>
    /\ UNCHANGED application

NextRecompose == ComposeReport \/ Recompose \/ SaveDefault \/ Preview \/ Tick

SpecRecompose == InitRecompose /\ [][NextRecompose]_vars

----------------------------------------------------------------------------
(* The quick tier of the application: determine_maliciousness called on a   *)
(* name, without permissions or with a list of them.                        *)

InitQuick ==
    /\ pc = "start"
    /\ apk_info \in {PyDict([name |-> PyStr(n)]) : n \in Names}
    /\ analysis_data \in {PyDict(<<>>)} \cup {PyDict([Permissions |-> perms]) : perms \in PermLists}
    /\ report = NoReport
    /\ earlier = NoEarlier
    /\ now = 0
    /\ NoPipeline

\* determine_maliciousness(apk_info['name']) where there are no package
\* facts, determine_maliciousness(apk_info['name'], permissions) where
\* there are
DetermineMaliciousness ==
    /\ pc = "start"
    /\ result' = [kind |-> "determined",
                  value |-> determine_maliciousness(
                                Get(apk_info, "name", PyNone),
                                Get(analysis_data, "Permissions", PyNone))]
    /\ pc' = "determined"
    /\ UNCHANGED <<composer, now, environment, dirs, files, saved_files, runs>>
    /\ UNCHANGED application

NextQuick == DetermineMaliciousness

SpecQuick == InitQuick /\ [][NextQuick]_vars

----------------------------------------------------------------------------
(* Properties of the composer.                                              *)

\* compose_report has returned a report that is not the empty one
Composed == pc = "composed" /\ ~IsEmptyReport(report)

\* the name the scorer reads: apk_info.get('name', '')
ScoredName == Get(apk_info, "name", PyStr(<<>>)).val

\* the number of entries of the keyword table that occur in the
\* lower-cased name
KeywordHits(name) ==
    Cardinality({i \in DOMAIN suspicious_keywords :
                    Contains(Lower(name), suspicious_keywords[i])})

\* the permission contains an entry of the dangerous-permission table,
\* compared case-insensitively
ContainsDangerousEntry(perm) ==
    \E j \in DOMAIN dangerous_permissions :
        Contains(Lower(perm), Lower(dangerous_permissions[j]))

Occurrences(seq, x) == Cardinality({i \in DOMAIN seq : seq[i] = x})

\* a is b with some elements left out
RECURSIVE IsSubsequence(_, _)
IsSubsequence(a, b) ==
    IF a = <<>> THEN TRUE
    ELSE IF b = <<>> THEN FALSE
    ELSE IF Head(a) = Head(b) THEN IsSubsequence(Tail(a), Tail(b))
    ELSE IsSubsequence(a, Tail(b))

\* C1: the suspicious_score of every composed report, in the security
\* assessment and in the statistics, is an integer between 0 and 10.
ScoreInRange ==
    Composed =>
        /\ report.security_assessment.suspicious_score \in 0..10
        /\ report.statistics.suspicious_score \in 0..10

\* C1 witness: a report whose keyword hits and dangerous permissions add up
\* to more than 10 points, and whose score is 10.
ScoreCapped ==
    /\ Composed
    /\ 2 * KeywordHits(ScoredName) + Len(report.permissions.dangerous) > 10
    /\ report.security_assessment.suspicious_score = 10

\* C2: suspicious_score = min(floor((keyword_hits + 0.5 * dangerous_count)
\* * 2), 10), every matching keyword counted; (keyword_hits + 0.5 *
\* dangerous_count) * 2 is the integer 2 * keyword_hits + dangerous_count.
ScoreFormula ==
    Composed =>
        LET keyword_hits == KeywordHits(ScoredName)
            dangerous_count == Len(report.permissions.dangerous)
            claimed == Min(2 * keyword_hits + dangerous_count, 10)
        IN  /\ report.security_assessment.suspicious_score = claimed
            /\ report.statistics.suspicious_score = claimed

\* C2 witness: several keywords and a dangerous permission, below the cap.
ScoreOfSeveralKeywords ==
    /\ Composed
    /\ KeywordHits(ScoredName) >= 2
    /\ Len(report.permissions.dangerous) >= 1
    /\ report.security_assessment.suspicious_score < 10

\* C3: the tier is high if score >= 7 or dangerous_count >= 3, otherwise
\* medium if score >= 4 or dangerous_count >= 1, otherwise low; a report
\* with a dangerous permission is at least medium, and three keyword hits
\* without permissions give score 6 and tier medium.
TierRule ==
    Composed =>
        LET score == report.security_assessment.suspicious_score
            dangerous_count == Len(report.permissions.dangerous)
            tier == report.security_assessment.risk_level
        IN  /\ tier = IF score >= 7 \/ dangerous_count >= 3 THEN "high"
                      ELSE IF score >= 4 \/ dangerous_count >= 1 THEN "medium"
                      ELSE "low"
            /\ dangerous_count >= 1 => tier \in {"medium", "high"}
            /\ KeywordHits(ScoredName) = 3 /\ PyLen(report.permissions.list) = 0
                  => score = 6 /\ tier = "medium"

\* C3 witness: a dangerous permission makes the tier medium although the
\* score is below 4.
TierMediumByPermission ==
    /\ Composed
    /\ report.security_assessment.suspicious_score < 4
    /\ Len(report.permissions.dangerous) >= 1
    /\ report.security_assessment.risk_level = "medium"

\* C4: in every non-empty report statistics.total_permissions =
\* permissions.total = len(permissions.list), and
\* statistics.dangerous_permissions = len(permissions.dangerous) = the
\* dangerous-permission count of the security assessment.
CountsConsistent ==
    Composed =>
        /\ report.statistics.total_permissions = report.permissions.total
        /\ report.permissions.total = PyLen(report.permissions.list)
        /\ report.statistics.dangerous_permissions = Len(report.permissions.dangerous)
        /\ Len(report.permissions.dangerous)
              = report.security_assessment.dangerous_permissions_count

\* C4 witness: a report with a repeated permission, dangerous and harmless
\* permissions.
CountsOfMixedList ==
    /\ Composed
    /\ report.permissions.total = 3
    /\ Len(report.permissions.dangerous) = 1
    /\ \E i, j \in 1..3 :
          i # j /\ Items(report.permissions.list)[i] = Items(report.permissions.list)[j]

\* C5: the dangerous list is a subsequence of the permission list: its
\* elements occur in the input, in the order they have there.
DangerousIsSubsequence ==
    Composed =>
        /\ IsSubsequence(report.permissions.dangerous, Items(report.permissions.list))
        /\ \A i \in DOMAIN report.permissions.dangerous :
              Occurrences(Items(report.permissions.list), report.permissions.dangerous[i]) > 0

\* C5 witness: two different dangerous permissions with a harmless one
\* between them.
DangerousAroundHarmless ==
    /\ Composed
    /\ PyLen(report.permissions.list) = 3
    /\ Len(report.permissions.dangerous) = 2
    /\ report.permissions.dangerous[1] # report.permissions.dangerous[2]
    /\ ~ContainsDangerousEntry(Items(report.permissions.list)[2].val)

\* C6: a permission is in the dangerous list iff it contains, compared
\* case-insensitively, an entry of the table; and it is there once for each
\* of its occurrences in the input, however many entries it contains.
FlaggedIffContains ==
    Composed =>
        LET perms == Items(report.permissions.list)
            dangerous == report.permissions.dangerous
        IN  \A i \in DOMAIN perms :
              /\ Occurrences(dangerous, perms[i]) > 0
                    <=> ContainsDangerousEntry(perms[i].val)
              /\ ContainsDangerousEntry(perms[i].val)
                    => Occurrences(dangerous, perms[i]) = Occurrences(perms, perms[i])

\* C6 witness: a lower-case permission that contains two entries of the
\* table is flagged.
FlaggedOnceForTwoEntries ==
    /\ Composed
    /\ \E i \in DOMAIN report.permissions.dangerous :
          LET perm == report.permissions.dangerous[i].val
          IN  /\ Cardinality({j \in DOMAIN dangerous_permissions :
                                Contains(Lower(perm), Lower(dangerous_permissions[j]))}) = 2
              /\ perm = Lower(perm)

\* C7: no permission appears twice in the dangerous list, whatever the
\* input, lists with a repeated permission included.
NoPermissionTwice ==
    Composed =>
        \A i, j \in DOMAIN report.permissions.dangerous :
            i # j => report.permissions.dangerous[i] # report.permissions.dangerous[j]

\* a sequence of strings: a list (or tuple) all of whose elements are str
IsSequenceOfStrings(v) ==
    /\ v.type \in {"list", "tuple"}
    /\ \A i \in 1..Len(v.val) : IsStr(v.val[i])

\* the arguments are well-formed: both are mappings, the name is a string,
\* Permissions is a sequence of strings, and Intents has a length
WellFormedArguments(info, data) ==
    /\ IsDict(info)
    /\ IsDict(data)
    /\ IsStr(Get(info, "name", PyStr(<<>>)))
    /\ IsSequenceOfStrings(Get(data, "Permissions", PyList(<<>>)))
    /\ HasLen(Get(data, "Intents", PyDict(<<>>)))

\* C9: compose_report returns (it never raises), it returns the empty
\* report for every malformed input, and a non-empty report only for
\* well-formed inputs.
MalformedGivesEmptyReport ==
    pc = "composed" =>
        /\ report # NoReport
        /\ IsEmptyReport(report) <=> ~WellFormedArguments(apk_info, analysis_data)

\* both calls have returned a report that is not the empty one
ComposedTwice ==
    /\ pc = "composed_again"
    /\ ~IsEmptyReport(earlier.report)
    /\ ~IsEmptyReport(report)

\* the name the scorer read in the call before
EarlierName == Get(earlier.apk_info, "name", PyStr(<<>>)).val

TierRank(level) == CASE level = "low" -> 0 [] level = "medium" -> 1 [] level = "high" -> 2

\* C8: of two compositions, the one with at least as many keyword hits and
\* at least as many dangerous permissions has a score, and a risk tier, at
\* least as high.
ScoreMonotonic ==
    ComposedTwice =>
        \/ ~(/\ KeywordHits(EarlierName) <= KeywordHits(ScoredName)
             /\ Len(earlier.report.permissions.dangerous)
                   <= Len(report.permissions.dangerous))
        \/ /\ earlier.report.security_assessment.suspicious_score
                 <= report.security_assessment.suspicious_score
           /\ TierRank(earlier.report.security_assessment.risk_level)
                 <= TierRank(report.security_assessment.risk_level)

\* C8 witness: the second composition has more keyword hits and more
\* dangerous permissions, a higher score that reaches the cap, and a
\* higher tier.
ScoreRaisedToCap ==
    /\ ComposedTwice
    /\ KeywordHits(EarlierName) < KeywordHits(ScoredName)
    /\ Len(earlier.report.permissions.dangerous) < Len(report.permissions.dangerous)
    /\ earlier.report.security_assessment.suspicious_score
          < report.security_assessment.suspicious_score
    /\ 2 * KeywordHits(ScoredName) + Len(report.permissions.dangerous) > 10
    /\ TierRank(earlier.report.security_assessment.risk_level)
          < TierRank(report.security_assessment.risk_level)

\* the rules of the warnings, in their order
WarningRules(warnings) == [i \in 1..Len(warnings) |-> warnings[i].rule]

\* what a warning cites is right: the number of dangerous permissions, a
\* keyword that occurs in the lower-cased name, the length of the list
CitesRight(warning) ==
    CASE warning.rule = "dangerous_permissions" ->
            warning.n = Len(report.permissions.dangerous)
      [] warning.rule = "suspicious_keyword" ->
            /\ InSeq(warning.keyword, suspicious_keywords)
            /\ Contains(Lower(ScoredName), warning.keyword)
      [] warning.rule = "many_permissions" ->
            warning.n = PyLen(report.permissions.list)

\* C12: the warnings are, in this order, the dangerous-permissions warning
\* iff the dangerous count is positive, one keyword warning iff a keyword
\* occurs in the lower-cased name, and the permission-count warning iff
\* the list has more than 20 entries; each cites the right value.
WarningsExact ==
    Composed =>
        /\ WarningRules(report.security_assessment.warnings) =
              (IF Len(report.permissions.dangerous) > 0
               THEN <<"dangerous_permissions">> ELSE <<>>)
              \o (IF KeywordHits(ScoredName) > 0
                  THEN <<"suspicious_keyword">> ELSE <<>>)
              \o (IF PyLen(report.permissions.list) > 20
                  THEN <<"many_permissions">> ELSE <<>>)
        /\ \A i \in DOMAIN report.security_assessment.warnings :
              CitesRight(report.security_assessment.warnings[i])

\* C12 witness: all three rules fire, on a name with several keywords
AllThreeWarnings ==
    /\ Composed
    /\ Len(report.security_assessment.warnings) = 3
    /\ KeywordHits(ScoredName) > 1
    /\ PyLen(report.permissions.list) = 21

\* the statements of the recommendations, in their order
RecommendationTexts(recommendations) ==
    [i \in 1..Len(recommendations) |-> recommendations[i].text]

\* the statements that the three rules give for a report, in their order
RuleTexts(rep) ==
    (IF rep.security_assessment.risk_level = "high"
     THEN <<"do_not_install", "check_virustotal">> ELSE <<>>)
    \o (IF rep.security_assessment.dangerous_permissions_count > 0
        THEN <<"requests_dangerous", "reconsider_permissions">> ELSE <<>>)
    \o (IF PyLen(rep.permissions.list) > 25
        THEN <<"too_many_permissions", "consider_alternatives">> ELSE <<>>)

IsReassuring(text) == text = "no_threats_found"
IsRuleText(text) == ~IsReassuring(text)

\* C13: the recommendations that the rules give are, in this order, the
\* two do-not-install items iff the tier is high, the two
\* dangerous-permission items, citing the count, iff the dangerous count
\* is positive, and the two excessive-permission items iff the list has
\* more than 25 entries; they follow from the security assessment of the
\* report and the length of its list alone.
RecommendationsExact ==
    Composed =>
        /\ SelectSeq(RecommendationTexts(report.recommendations), IsRuleText)
              = RuleTexts(report)
        /\ \A i \in DOMAIN report.recommendations :
              report.recommendations[i].text = "requests_dangerous"
                 => report.recommendations[i].n
                       = report.security_assessment.dangerous_permissions_count
        /\ report.security_assessment.dangerous_permissions_count
              = Len(report.permissions.dangerous)

\* C13 witness: all three rules fire, and the six items are there
AllSixRecommendations ==
    /\ Composed
    /\ Len(report.recommendations) = 6
    /\ report.security_assessment.risk_level = "high"
    /\ PyLen(report.permissions.list) = 26

\* C14: the recommendations are never empty; they are the reassuring
\* statement alone iff the tier is not high, the dangerous count is 0 and
\* the list has at most 25 entries; the reassuring statement never comes
\* with another recommendation.
ReassuringIffNoRuleFired ==
    Composed =>
        /\ report.recommendations # <<>>
        /\ RecommendationTexts(report.recommendations) = <<"no_threats_found">>
              <=> /\ report.security_assessment.risk_level # "high"
                  /\ report.security_assessment.dangerous_permissions_count = 0
                  /\ PyLen(report.permissions.list) <= 25
        /\ (\E i \in DOMAIN report.recommendations :
                IsReassuring(report.recommendations[i].text))
              => Len(report.recommendations) = 1

\* C14 witness: a medium tier by the name alone, a list of 25 harmless
\* permissions, and the reassuring statement alone
ReassuredAtMediumTier ==
    /\ Composed
    /\ report.security_assessment.risk_level = "medium"
    /\ PyLen(report.permissions.list) = 25
    /\ RecommendationTexts(report.recommendations) = <<"no_threats_found">>

----------------------------------------------------------------------------
(* Properties of save_report.                                               *)

\* save_report has returned, and `result` keeps the call
Saved == result.kind = "saved"

Range(seq) == {seq[i] : i \in DOMAIN seq}

\* the formats of the last call that are supported
RequestedSupported ==
    {fmt \in Range(result.value.formats) : InSeq(fmt, supported_formats)}

\* the serializer of the format fails in the last call: the file cannot be
\* opened, or the report cannot be rendered
SerializerFails(fmt) ==
    fmt \in failing \/ (fmt = "json" /\ ~JsonSerializable(report))

\* the path is that of a file on the disk that holds a whole document of
\* the format
HoldsDocument(path, fmt) ==
    /\ path \in DOMAIN files
    /\ files[path].format = fmt
    /\ "truncated" \notin DOMAIN files[path]

\* C15: a format that is not supported is skipped: the keys of the mapping
\* returned are requested supported formats whose file was written, no
\* file of another format is written, and a requested supported format
\* whose serializer does not fail is in the mapping whatever else was
\* requested.
UnsupportedSkipped ==
    Saved =>
        /\ DOMAIN saved_files \subseteq RequestedSupported
        /\ \A fmt \in DOMAIN saved_files : HoldsDocument(saved_files[fmt], fmt)
        /\ \A path \in DOMAIN files : InSeq(files[path].format, supported_formats)
        /\ \A fmt \in RequestedSupported :
              ~SerializerFails(fmt) => fmt \in DOMAIN saved_files

\* C15 witness: xml and then json are requested, and the mapping has json
\* alone
XmlThenJsonGivesJson ==
    /\ Saved
    /\ result.value.formats = <<"xml", "json">>
    /\ DOMAIN saved_files = {"json"}

\* C16: a format whose serializer fails is absent from the mapping, and
\* every other requested supported format is in the mapping and its file
\* is written, before and after the failing one.
FailureSkipsOneFormat ==
    Saved =>
        \A fmt \in RequestedSupported :
            IF SerializerFails(fmt)
            THEN fmt \notin DOMAIN saved_files
            ELSE fmt \in DOMAIN saved_files /\ HoldsDocument(saved_files[fmt], fmt)

\* C16 witness: the first format cannot be opened, the second is written
FirstFailsSecondWritten ==
    /\ Saved
    /\ Len(result.value.formats) = 2
    /\ result.value.formats[1] \in failing
    /\ DOMAIN saved_files = {result.value.formats[2]}

\* the name of a report file of the last call
ReportName(fmt) ==
    result.value.apk_name \o <<"_">> \o Decimal(result.value.clock)
        \o <<".">> \o FormatChars[fmt]

\* the files that the last call has opened
Opened == {fmt \in RequestedSupported : fmt \notin failing}

\* C17: a call writes one file for each requested supported format that
\* can be opened, and no other; each is in the reports directory of the
\* composer and is named {base_name}_{timestamp}.{ext}, the timestamp
\* being the second in which the call began, whatever the clock does
\* during the call.
OneFilePerFormat ==
    Saved =>
        /\ \A fmt \in Opened :
              \E path \in DOMAIN files :
                 /\ dirname(path) = ReportComposer(output_dir.val).reports_dir
                 /\ basename(path) = ReportName(fmt)
                 /\ files[path].format = fmt
        /\ \A path \in DOMAIN files \ DOMAIN result.value.before :
              /\ dirname(path) = ReportComposer(output_dir.val).reports_dir
              /\ \E fmt \in Opened : basename(path) = ReportName(fmt)
        /\ Cardinality(DOMAIN files \ DOMAIN result.value.before) <= Cardinality(Opened)
        /\ \A fmt \in DOMAIN saved_files : basename(saved_files[fmt]) = ReportName(fmt)

\* C17 witness: two formats are written while the clock advances: the txt
\* file tells a later second than the timestamp that the two names share
SharedTimestampAsClockAdvances ==
    /\ Saved
    /\ DOMAIN saved_files = {"json", "txt"}
    /\ Cardinality(DOMAIN files) = 2
    /\ files[saved_files["txt"]].generated > result.value.clock

----------------------------------------------------------------------------
(* Properties of the quick tier.                                            *)

Determined == pc = "determined"

\* the permissions that determine_maliciousness was given: none, or those
\* of the list
SuppliedPermissions == Items(Get(analysis_data, "Permissions", PyList(<<>>)))

\* the entries of the dangerous-permission table that at least one of the
\* supplied permissions contains, compared case-insensitively
EntriesPresent ==
    {j \in DOMAIN DANGEROUS_PERMISSIONS :
        \E i \in DOMAIN SuppliedPermissions :
            Contains(Lower(SuppliedPermissions[i].val), Lower(DANGEROUS_PERMISSIONS[j]))}

\* twice the tally: two for each keyword in the lower-cased name and one
\* for each table entry present
TwiceTally == 2 * KeywordHits(ScoredName) + Cardinality(EntriesPresent)

\* C18: the quick tier is high if the tally is at least 2, medium if it is
\* at least 1, low otherwise, the tally being the keyword hits plus 0.5
\* for each table entry present in a supplied permission.
QuickTierRule ==
    Determined =>
        result.value.risk_level =
            (IF TwiceTally >= 4 THEN "vysokaya"
             ELSE IF TwiceTally >= 2 THEN "srednyaya" ELSE "nizkaya")

\* C18 witness: no keyword in the name, and one permission, given twice,
\* that contains two entries of the table: the tally is 1, the tier medium
QuickMediumByOnePermission ==
    /\ Determined
    /\ KeywordHits(ScoredName) = 0
    /\ Cardinality(EntriesPresent) = 2
    /\ Len(SuppliedPermissions) = 2
    /\ SuppliedPermissions[1] = SuppliedPermissions[2]
    /\ result.value.risk_level = "srednyaya"

----------------------------------------------------------------------------
(* Properties of the composer over its life.                                *)

EqualExceptDate(r1, r2) ==
    IF IsEmptyReport(r1) \/ IsEmptyReport(r2)
    THEN IsEmptyReport(r1) /\ IsEmptyReport(r2)
    ELSE [r1 EXCEPT !.metadata.analysis_date = 0]
            = [r2 EXCEPT !.metadata.analysis_date = 0]

\* the last composition was made from the arguments of the first
SameArgumentsAgain ==
    /\ pc = "composed_again"
    /\ earlier.apk_info = apk_info
    /\ earlier.analysis_data = analysis_data

----------------------------------------------------------------------------
(* Properties of the pipeline.                                              *)

\* analyze_single_apk has returned the result of a composition
Analyzed == pc = "returned" /\ result.value # PyNone

\* a report file holds the empty report: the JSON document {}
HoldsEmptyReport(content) ==
    content.format = "json" /\ "document" \in DOMAIN content
        /\ IsEmptyReport(content.document)

\* C10: when compose_report has returned the empty report to
\* analyze_single_apk, save_report has saved nothing: the mapping of the
\* saved files is empty and no file on the disk holds the empty report.
EmptyReportNotPersisted ==
    (Analyzed /\ IsEmptyReport(result.value.structured_report))
        => /\ DOMAIN result.value.saved_files = {}
           /\ \A p \in DOMAIN files : ~HoldsEmptyReport(files[p])

\* the extractor is unavailable, or it throws
ExtractionFailed == ~ANDROGUARD_AVAILABLE \/ AnalyzeAPK.raises

\* C11: when androguard is not imported or raises, the report that
\* analyze_single_apk returns has no permission and the tier low, whatever
\* the name of the package.
ExtractionFailureGivesLowEmptyFacts ==
    (Analyzed /\ ExtractionFailed)
        => /\ result.value.structured_report.permissions.total = 0
           /\ result.value.structured_report.security_assessment.risk_level = "low"

----------------------------------------------------------------------------
(* The application saving the full report of an analysis: save_full_report *)
(* hands the structured report to save_report with the four formats.       *)

\* formats=['json', 'txt', 'csv', 'html']
FullFormats == <<"json", "txt", "csv", "html">>

\* the descriptors of the packages whose report is saved
RenderInfos ==
    {PyDict([name |-> PyStr(n), path |-> PyStr(<<"/">> \o n),
             size |-> PyInt(1024), last_modified |-> PyStr(<<"t">>)]) :
        n \in { <<"R","O","O","T","b","o","t",".","a","p","k">>,
                <<"C","l","e","a","n","A","p","p",".","a","p","k">> }}

\* the package facts: permissions and the main activity; neither; a
\* permission that contains two entries of the table; a permission list
\* with None, for which the report is empty; a set of permissions
RenderData ==
    {PyDict([Permissions |-> PyList(<<PyStr(READ_SMS), PyStr(INTERNET)>>),
             Intents |-> PyDict([MainActivity |-> MainFilter])]),
     PyDict([Permissions |-> PyList(<<>>), Intents |-> PyDict(<<>>)]),
     PyDict([Permissions |-> PyList(<<PyStr(camera_record_audio)>>)]),
     PyDict([Permissions |-> PyList(<<PyStr(READ_SMS), PyNone>>)]),
     PyDict([Permissions |-> PySet(<<PyStr(READ_SMS)>>)])}

\* a report that is handed to save_report with a list of dangerous
\* permissions that this composer did not compute: read back from a file
\* and reviewed, or composed with another table. The parameter `report` of
\* save_report is any dict.
Reviewed(rep) ==
    IF IsEmptyReport(rep) THEN {}
    ELSE {[rep EXCEPT !.permissions.dangerous = <<>>],
          [rep EXCEPT !.permissions.dangerous = <<PyStr(INTERNET)>>]}

InitRender ==
    /\ pc = "composed"
    /\ \E info \in RenderInfos, data \in RenderData :
          /\ apk_info = info
          /\ analysis_data = data
          /\ report \in {compose_report(info, data, 0)}
                            \cup Reviewed(compose_report(info, data, 0))
    /\ earlier = NoEarlier
    /\ now = 0
    /\ ANDROGUARD_AVAILABLE = FALSE
    /\ REPORT_COMPOSER_AVAILABLE = TRUE
    /\ packages = <<>>
    /\ AnalyzeAPK = NotImported
    /\ apk_path = <<>>
    /\ output_dir = PyNone
    /\ failing \in {{}, {"csv"}}
    /\ dirs = {ReportComposer(<<>>).reports_dir}
    /\ files = <<>>
    /\ saved_files = <<>>
    /\ result = NoResult
    /\ runs = 0
    /\ NoApplication

\* save_full_report(apk_info, analysis_data) where analysis_data holds the
\* structured report: ReportComposer() is made on the working directory,
\* the base name is the name of the package without its extension, and
\* save_report is called with the four formats
SaveFullReport ==
    /\ runs < MaxSaves
    /\ \E during \in {now, now + 1} :
         /\ during <= MaxClock
         /\ \E saved \in {save_report(report, splitext_root(apk_info.val.name.val),
                              FullFormats,
                              [reports_dir |-> ReportComposer(<<>>).reports_dir,
                               clock |-> now,
                               during |-> during,
                               failing |-> failing],
                              files)} :
               /\ files' = saved.files
               /\ saved_files' = saved.saved_files
               /\ result' = [kind |-> "saved",
                             value |-> [report |-> report,
                                        apk_name |-> splitext_root(apk_info.val.name.val),
                                        formats |-> FullFormats,
                                        clock |-> now,
                                        before |-> files,
                                        saved_files |-> saved.saved_files]]
         /\ report' = ReportAfterSave(report, FullFormats)
         /\ now' = during
    /\ runs' = runs + 1
    /\ pc' = "saved"
    /\ UNCHANGED <<apk_info, analysis_data, earlier, environment, dirs>>
    /\ UNCHANGED application

NextRender == SaveFullReport \/ Tick

SpecRender == InitRender /\ [][NextRender]_vars

----------------------------------------------------------------------------
(* Properties of the serializers.                                           *)

\* the top-level fields of a report
TopLevelFields ==
    {"metadata", "permissions", "intents", "security_assessment",
     "recommendations", "statistics"}

\* the reports that compose_report makes of the packages
ComposedReports ==
    {compose_report(info, data, 0) : info \in RenderInfos, data \in RenderData}
        \ {EmptyReport}

\* the serializer of the format renders the field of the report: the
\* document depends on the field, that is, the document is another one for
\* some other value of the field
Renders(fmt, rep, field) ==
    \E other \in ComposedReports :
        Serialize(fmt, [rep EXCEPT ![field] = other[field]], 0) # Serialize(fmt, rep, 0)

\* C21: each of the four serializers renders every top-level field of the
\* report it is given: metadata, permissions, intents, security_assessment,
\* recommendations and statistics.
EveryFieldRendered ==
    (Saved /\ ~IsEmptyReport(report)) =>
        \A fmt \in DOMAIN saved_files : \A field \in TopLevelFields :
            Renders(fmt, report, field)

\* json.load(f) on the text of a file: the dict of the members of an
\* object, None for null, and JSONDecodeError for a text that is no whole
\* JSON value
json_load(text) ==
    IF Len(text) = 1 /\ text[1].token = "null"
    THEN [raises |-> FALSE, value |-> PyNone]
    ELSE IF /\ Len(text) >= 2
            /\ text[1].token = "{"
            /\ text[Len(text)].token = "}"
            /\ \A i \in 2..(Len(text) - 1) : text[i].token = "member"
         THEN [raises |-> FALSE,
               value |-> [k \in {text[i].key : i \in 2..(Len(text) - 1)} |->
                             text[CHOOSE i \in 2..(Len(text) - 1) : text[i].key = k].value]]
         ELSE [raises |-> TRUE, value |-> PyNone]

\* the file of the format that the last call names in its mapping
SavedFile(fmt) == files[saved_files[fmt]]

\* C22: serializing the empty report to each of the four formats does not
\* raise: save_report on the empty report with json, txt, csv and html
\* returns a mapping with every one of the four whose file can be opened,
\* each file holds a whole document, and the json file reads back as the
\* empty structure.
EmptyReportSerializes ==
    (Saved /\ IsEmptyReport(result.value.report)) =>
        /\ DOMAIN saved_files = Range(FullFormats) \ failing
        /\ \A fmt \in DOMAIN saved_files : HoldsDocument(saved_files[fmt], fmt)
        /\ "json" \in DOMAIN saved_files =>
              /\ ~json_load(SavedFile("json").text).raises
              /\ IsEmptyReport(json_load(SavedFile("json").text).value)

\* C22 witness: the empty report is saved, and the mapping has the four
\* formats
EmptyReportInFourFiles ==
    /\ Saved
    /\ IsEmptyReport(result.value.report)
    /\ DOMAIN saved_files = {"json", "txt", "csv", "html"}
    /\ Cardinality(DOMAIN files) = 4

----------------------------------------------------------------------------
(* Two callers in save_report at a time: each takes its timestamp, and for *)
(* every format opens the file, which truncates it, and writes and closes  *)
(* it. The steps of the two are interleaved in any order, while the clock  *)
(* advances. Nothing in save_report or in the composer orders the callers. *)

Callers == {"A", "B"}

\* the frame of a caller that is not in save_report
Idle == [pc |-> "idle"]

\* a second base name
OtherName == <<"O","t","h","e","r">>

\* the reports directories of two composers
ConcurrentDirs ==
    {ReportComposer(SaveDir).reports_dir, ReportComposer(<<>>).reports_dir}

\* the reports that the callers save: of one package, with two permissions
\* and without any
ConcurrentReports ==
    {compose_report(PyDict([name |-> PyStr(BaseName)]), data, 0) :
        data \in {PyDict([Permissions |-> PyList(<<PyStr(READ_SMS), PyStr(INTERNET)>>)]),
                  PyDict([Permissions |-> PyList(<<>>)])}}

\* what a caller asks for: caller A saves under BaseName in the directory
\* of the first composer, caller B under either name in either directory
Requests(c) ==
    [reports_dir : IF c = "A" THEN {ReportComposer(SaveDir).reports_dir} ELSE ConcurrentDirs,
     apk_name : IF c = "A" THEN {BaseName} ELSE {BaseName, OtherName},
     formats : {<<"json">>, <<"json", "txt">>},
     report : ConcurrentReports]

\* the file that open(file_path, 'w') leaves: truncated to nothing
EmptyFile(fmt) == [format |-> fmt, empty |-> TRUE]

\* a file that two callers have written through two open files: the text
\* of the later write from the start of the file, and behind it what is
\* left of the text that was there
Mixed(doc, existing) == [format |-> doc.format, mixed |-> TRUE, head |-> doc, tail |-> existing]

\* the contents that a file can have after a caller has written doc and
\* closed: doc, where the file was empty since the caller opened it or
\* held the same text; where another caller has written it in between, doc
\* or doc followed by the rest of the other text, as that text is no longer
\* or longer than doc (the text of a report is written in one piece, being
\* shorter than the buffer of the file object)
Written(doc, existing) ==
    IF "empty" \in DOMAIN existing \/ existing = doc THEN {doc}
    ELSE {doc, Mixed(doc, existing)}

InitConcurrent ==
    /\ pc = "composed"
    /\ apk_info = PyDict([name |-> PyStr(BaseName)])
    /\ analysis_data = PyNone
    /\ report = NoReport
    /\ earlier = NoEarlier
    /\ now = 0
    /\ ANDROGUARD_AVAILABLE = FALSE
    /\ REPORT_COMPOSER_AVAILABLE = TRUE
    /\ packages = <<>>
    /\ AnalyzeAPK = NotImported
    /\ apk_path = <<>>
    /\ output_dir = PyNone
    /\ failing = {}
    /\ dirs = ConcurrentDirs
    /\ files = <<>>
    /\ saved_files = <<>>
    /\ result = NoResult
    /\ runs = 0
    /\ calls = [c \in Callers |-> Idle]
    /\ apk_list_view = <<>>
    /\ file_count_text = 0
    /\ dialog = NoDialog
    /\ mtime = <<>>

\* save_report is entered: the timestamp is taken, once; `after` keeps the
\* callers whose call was over by then
BeginSave(c) ==
    /\ calls[c].pc = "idle"
    /\ \E request \in Requests(c) :
          calls' = [calls EXCEPT ![c] =
                       [pc |-> "loop",
                        reports_dir |-> request.reports_dir,
                        apk_name |-> request.apk_name,
                        formats |-> request.formats,
                        report |-> request.report,
                        timestamp |-> strftime(now),
                        after |-> {d \in Callers : calls[d].pc = "returned"},
                        i |-> 1,
                        saved_files |-> EmptyDict,
                        written |-> <<>>]]
    /\ UNCHANGED <<pc, composer, now, environment, pipeline,
                   apk_list_view, file_count_text, dialog, mtime>>

\* the loop reaches the next format: an unsupported one is skipped; for a
\* supported one the file is opened for writing, which truncates it, or
\* open() raises and the format is left
OpenFile(c) ==
    /\ calls[c].pc = "loop"
    /\ calls[c].i <= Len(calls[c].formats)
    /\ LET call == calls[c]
           fmt == call.formats[call.i]
           file_path == ReportPath(call.reports_dir, call.apk_name, call.timestamp, fmt)
       IN  IF ~InSeq(fmt, supported_formats) \/ fmt \in failing
           THEN /\ calls' = [calls EXCEPT ![c].i = @ + 1]
                /\ UNCHANGED files
           ELSE /\ calls' = [calls EXCEPT ![c].pc = "opened"]
                /\ files' = Put(files, file_path, EmptyFile(fmt))
    /\ UNCHANGED <<pc, composer, now, environment, dirs, saved_files, result, runs,
                   apk_list_view, file_count_text, dialog, mtime>>

\* the serializer writes the document and the file is closed; the format
\* is entered in the mapping. json.dump raises on a report that cannot be
\* rendered, and the file is left as it is.
WriteFile(c) ==
    /\ calls[c].pc = "opened"
    /\ LET call == calls[c]
           fmt == call.formats[call.i]
           file_path == ReportPath(call.reports_dir, call.apk_name, call.timestamp, fmt)
       IN  IF fmt = "json" /\ ~JsonSerializable(call.report)
           THEN /\ calls' = [calls EXCEPT ![c].pc = "loop", ![c].i = @ + 1]
                /\ UNCHANGED files
           ELSE \E content \in Written(Serialize(fmt, call.report, now), files[file_path]) :
                   /\ files' = Put(files, file_path, content)
                   /\ calls' = [calls EXCEPT
                         ![c].pc = "loop",
                         ![c].i = @ + 1,
                         ![c].saved_files = Put(@, fmt, file_path),
                         ![c].written = Append(@, [path |-> file_path,
                                                   document |-> Serialize(fmt, call.report, now),
                                                   serial |-> runs])]
    /\ runs' = runs + 1
    /\ UNCHANGED <<pc, composer, now, environment, dirs, saved_files, result,
                   apk_list_view, file_count_text, dialog, mtime>>

\* the loop is over and save_report returns the mapping
ReturnSaved(c) ==
    /\ calls[c].pc = "loop"
    /\ calls[c].i > Len(calls[c].formats)
    /\ calls' = [calls EXCEPT ![c].pc = "returned"]
    /\ saved_files' = calls[c].saved_files
    /\ result' = [kind |-> "saved", value |-> [caller |-> c]]
    /\ UNCHANGED <<pc, composer, now, environment, dirs, files, runs,
                   apk_list_view, file_count_text, dialog, mtime>>

NextConcurrent ==
    \/ \E c \in Callers : BeginSave(c)
    \/ \E c \in Callers : OpenFile(c)
    \/ \E c \in Callers : WriteFile(c)
    \/ \E c \in Callers : ReturnSaved(c)
    \/ Tick

SpecConcurrent == InitConcurrent /\ [][NextConcurrent]_vars

----------------------------------------------------------------------------
(* Properties of two save_report calls.                                     *)

\* both callers have returned from save_report
BothReturned == \A c \in Callers : calls[c].pc = "returned"

\* the paths that the call of a caller has written
PathsWritten(c) == {calls[c].written[i].path : i \in DOMAIN calls[c].written}

\* the two calls use the same reports directory and the same base name,
\* began in the same second, and request a common supported format
SameTarget ==
    /\ calls["A"].reports_dir = calls["B"].reports_dir
    /\ calls["A"].apk_name = calls["B"].apk_name
    /\ calls["A"].timestamp = calls["B"].timestamp
    /\ \E fmt \in Range(calls["A"].formats) \cap Range(calls["B"].formats) :
          InSeq(fmt, supported_formats)

\* the writes of the two calls to a path
WritesTo(path) ==
    {w \in UNION {Range(calls[c].written) : c \in Callers} : w.path = path}

\* the document of the later write to a path
LaterDocument(path) ==
    (CHOOSE w \in WritesTo(path) : \A v \in WritesTo(path) : v.serial <= w.serial).document

\* the two calls write to the same path exactly if they have the same
\* target
SamePathIffSameTarget ==
    BothReturned => ((PathsWritten("A") \cap PathsWritten("B") # {}) <=> SameTarget)

\* calls with different base names write disjoint sets of paths
OtherNameOtherPaths ==
    (BothReturned /\ calls["A"].apk_name # calls["B"].apk_name) =>
        PathsWritten("A") \cap PathsWritten("B") = {}

OneAfterTheOther == \E c \in Callers : calls[c].after # {}

\* the document of the earlier write to a path
EarlierDocument(path) ==
    (CHOOSE w \in WritesTo(path) : \A v \in WritesTo(path) : w.serial <= v.serial).document

OverlappingCallsMixFile ==
    /\ BothReturned
    /\ ~OneAfterTheOther
    /\ \E path \in DOMAIN files : "mixed" \in DOMAIN files[path]

----------------------------------------------------------------------------
(* Properties of the composer: keywords in the warnings and in the score.   *)

\* the warnings of the report that name a keyword
KeywordWarnings ==
    SelectSeq(report.security_assessment.warnings,
              LAMBDA w : w.rule = "suspicious_keyword")

\* the first entry of the keyword table that occurs in the lower-cased name
FirstKeywordOfTable(name) ==
    suspicious_keywords[
        CHOOSE i \in DOMAIN suspicious_keywords :
            /\ Contains(Lower(name), suspicious_keywords[i])
            /\ \A h \in 1..(i - 1) : ~Contains(Lower(name), suspicious_keywords[h])]

\* C24: for a name with k >= 1 keyword hits the warnings hold exactly one
\* keyword warning, which names the first matching keyword in the order of
\* the table, while the score counts every hit: it is 2k more than the
\* score of the dangerous permissions alone, before the cap of 10.
OneWarningManyHits ==
    (Composed /\ KeywordHits(ScoredName) >= 1) =>
        /\ Len(KeywordWarnings) = 1
        /\ KeywordWarnings[1].keyword = FirstKeywordOfTable(ScoredName)
        /\ report.security_assessment.suspicious_score =
              Min(2 * KeywordHits(ScoredName) + Len(report.permissions.dangerous), 10)

\* C24 witness: a name with three keywords, of which the one that the
\* warning names is not the first to occur in the name, and a score below
\* the cap
WarningNamesLaterKeyword ==
    /\ Composed
    /\ KeywordHits(ScoredName) = 3
    /\ Len(KeywordWarnings) = 1
    /\ FirstOccurrence(Lower(ScoredName), KeywordWarnings[1].keyword) > 0
    /\ \E i \in DOMAIN suspicious_keywords :
          /\ Contains(Lower(ScoredName), suspicious_keywords[i])
          /\ FirstOccurrence(Lower(ScoredName), suspicious_keywords[i]) = 0
    /\ report.security_assessment.suspicious_score = 6

\* C25: in every composed report the statistics agree with the rest of the
\* report: statistics.suspicious_score is the score of the security
\* assessment, statistics.activities is the number of entries of
\* report.intents, and report.intents is the Intents mapping of the package
\* facts, unchanged (the empty mapping where the facts have none).
StatisticsAgree ==
    Composed =>
        /\ report.statistics.suspicious_score
              = report.security_assessment.suspicious_score
        /\ report.statistics.activities = PyLen(report.intents)
        /\ report.intents = Get(analysis_data, "Intents", PyDict(<<>>))

\* C25 witness: a report of a package with an activity, whose score is at
\* the cap
StatisticsOfCappedScore ==
    /\ Composed
    /\ "Intents" \in DOMAIN analysis_data.val
    /\ report.statistics.activities = 1
    /\ report.statistics.suspicious_score = 10
    /\ 2 * KeywordHits(ScoredName) + Len(report.permissions.dangerous) > 10

\* the permissions that the html document of the last call marks as
\* dangerous
MarkedDangerous ==
    LET items == SavedFile("html").permissions
    IN  {items[i].perm : i \in {j \in DOMAIN items : items[j].class = "dangerous"}}

\* the html file of the last call is that of a report with its fields
HtmlSaved ==
    /\ Saved
    /\ ~IsEmptyReport(result.value.report)
    /\ "html" \in DOMAIN saved_files

HtmlMarksTheDangerousListOfComposed ==
    (HtmlSaved /\ result.value.report \in ComposedReports) =>
        MarkedDangerous = Range(result.value.report.permissions.dangerous)

----------------------------------------------------------------------------
(* Properties of the pipeline without the report composer.                  *)

\* the directory that analyze_single_apk writes to in the last call
AnalysisDir ==
    IF output_dir = PyNone
    THEN (IF dirname(apk_path) = <<>> THEN <<".">> ELSE dirname(apk_path))
    ELSE output_dir.val

\* os.path.join(output_dir, f"{apk_name}_analysis.csv") and the same for
\* json, for the package of the last call
AnalysisPath(fmt) ==
    join(AnalysisDir,
         splitext_root(basename(apk_path))
             \o <<"_","a","n","a","l","y","s","i","s",".">> \o FormatChars[fmt])

\* the last call was made without the composer on a package that exists
CalledWithoutComposer ==
    /\ pc \in {"returned", "raised"}
    /\ ~REPORT_COMPOSER_AVAILABLE
    /\ apk_path \in DOMAIN packages

\* C27: without the report composer analyze_single_apk on a package that
\* exists completes without an error, leaves {name}_analysis.csv and
\* {name}_analysis.json in the output directory, and returns the raw data
\* list.
FallbackSavesRawData ==
    CalledWithoutComposer =>
        /\ result.kind = "returned"
        /\ result.value = process_apk(apk_path, ANDROGUARD_AVAILABLE, AnalyzeAPK)
        /\ {AnalysisPath("csv"), AnalysisPath("json")} \subseteq DOMAIN files

\* without the composer every call on a package that exists raises
\* NameError and leaves the disk as it was
FallbackRaisesNameError ==
    CalledWithoutComposer =>
        /\ result = [kind |-> "raised", value |-> "NameError"]
        /\ files = <<>>

----------------------------------------------------------------------------
(* The two tiers of one package: the card of the package list shows the     *)
(* quick tier of the name, and the composer assesses the same name with the *)
(* facts of a package that asks for no permission.                          *)

\* the names of the packages: of no keyword, and of one to six
TierNames ==
    {Concat(parts) :
        parts \in SeqsUpTo(NameParts \cup { <<"m","o","d">> }, MaxNameParts)}

\* the facts of a package without permissions: the empty list, or no list
TierData == {PyDict([Permissions |-> PyList(<<>>)]), PyDict(<<>>)}

InitTiers ==
    /\ pc = "start"
    /\ apk_info \in {PyDict([name |-> PyStr(n)]) : n \in TierNames}
    /\ analysis_data \in TierData
    /\ report = NoReport
    /\ earlier = NoEarlier
    /\ now = 0
    /\ NoPipeline

\* create_apk_card computing the tier that the card shows:
\* self.determine_maliciousness(apk_info["name"]), permissions=None
CreateApkCard ==
    /\ result.kind = "none"
    /\ result' = [kind |-> "determined",
                  value |-> determine_maliciousness(apk_info.val.name, PyNone)]
    /\ UNCHANGED <<pc, composer, now, environment, dirs, files, saved_files, runs>>
    /\ UNCHANGED application

NextTiers == CreateApkCard \/ ComposeReport

SpecTiers == InitTiers /\ [][NextTiers]_vars

----------------------------------------------------------------------------
(* Properties of the two tiers.                                             *)

\* the rank of a quick tier: low < medium < high
QuickRank(level) ==
    CASE level = "nizkaya" -> 0 [] level = "srednyaya" -> 1 [] level = "vysokaya" -> 2

\* both tiers of the name are computed, the composer's on an empty
\* permission list
BothTiers ==
    /\ Composed
    /\ result.kind = "determined"
    /\ PyLen(Get(analysis_data, "Permissions", PyList(<<>>))) = 0

\* C28: for every name the quick tier of the name alone is at least as
\* severe as the composer's tier of the same name with an empty permission
\* list, and the two are the same tier only when the name has no keyword
\* or at least four.
QuickTierAtLeastComposerTier ==
    BothTiers =>
        LET quick == QuickRank(result.value.risk_level)
            composed == TierRank(report.security_assessment.risk_level)
        IN  /\ quick >= composed
            /\ quick = composed =>
                  (KeywordHits(ScoredName) = 0 \/ KeywordHits(ScoredName) >= 4)

\* C28 witness: a name with four keywords, high in both tiers
FourKeywordsHighInBoth ==
    /\ BothTiers
    /\ KeywordHits(ScoredName) = 4
    /\ result.value.risk_level = "vysokaya"
    /\ report.security_assessment.risk_level = "high"

\* a name with one keyword: medium on the card, low in the report
OneKeywordMediumAndLow ==
    /\ BothTiers
    /\ KeywordHits(ScoredName) = 1
    /\ result.value.risk_level = "srednyaya"
    /\ report.security_assessment.risk_level = "low"

----------------------------------------------------------------------------
(* The application's list of packages: load_apk_files fills the list with a *)
(* card for every package found, and the delete button of a card asks for   *)
(* a confirmation and then removes the file and a card.                     *)

\* os.path.dirname(__file__) of interface.py
AppDir == <<"/","a","p","p">>

\* setup_directories where neither downloads_test nor a path of Android
\* exists when the application starts: the directory downloads alone
download_dirs == << join(AppDir, <<"d","o","w","n","l","o","a","d","s">>) >>

\* s ends with the suffix
EndsWith(s, suffix) ==
    /\ Len(s) >= Len(suffix)
    /\ SubSeq(s, Len(s) - Len(suffix) + 1, Len(s)) = suffix

\* the path is that of a file below the directory, at any depth
IsUnder(path, directory) ==
    /\ Len(path) > Len(directory) + 1
    /\ SubSeq(path, 1, Len(directory)) = directory
    /\ path[Len(directory) + 1] = "/"

\* strftime("%Y-%m-%d %H:%M"): the string tells the minute
strftime_minute(clock) == Decimal(clock \div 60)

\* the demos of create_demo_files: name and size
demos ==
    << [name |-> <<"F","r","e","e","P","r","e","m","i","u","m","H","a","c","k",".","a","p","k">>,
        size |-> 1024000],
       [name |-> <<"T","e","s","t","A","p","p",".","a","p","k">>, size |-> 2048000],
       [name |-> <<"V","i","r","u","s","C","l","e","a","n","e","r","M","o","d",".","a","p","k">>,
        size |-> 3072000],
       [name |-> <<"S","a","f","e","A","p","p",".","a","p","k">>, size |-> 1500000],
       [name |-> <<"C","r","a","c","k","G","a","m","e","F","r","e","e",".","a","p","k">>,
        size |-> 2500000] >>

\* create_demo_files on the disk and the clock: downloads_test is made,
\* every demo that does not exist is written with 100 bytes, and the list
\* of the descriptors of the five is returned
create_demo_files(disk, times, clock) ==
    LET test_dir == join(AppDir, <<"d","o","w","n","l","o","a","d","s","_","t","e","s","t">>)
        demo_path(i) == join(test_dir, demos[i].name)
        written == {demo_path(i) : i \in DOMAIN demos} \ DOMAIN disk
    IN  [demo_files |->
             [i \in DOMAIN demos |->
                 PyDict([name |-> PyStr(demos[i].name),
                         path |-> PyStr(demo_path(i)),
                         size |-> PyInt(demos[i].size),
                         last_modified |-> PyStr(strftime_minute(clock)),
                         permissions |-> PyList(<<>>)])],
         test_dir |-> test_dir,
         packages |-> [p \in DOMAIN disk \cup written |->
                          IF p \in written THEN 100 ELSE disk[p]],
         mtime |-> [p \in DOMAIN times \cup written |->
                       IF p \in written THEN clock ELSE times[p]]]

\* the files that path.rglob("*.apk") yields in the directories of
\* download_dirs
Found(disk) ==
    {p \in DOMAIN disk :
        /\ EndsWith(basename(p), <<".","a","p","k">>)
        /\ \E d \in DOMAIN download_dirs : IsUnder(p, download_dirs[d])}

\* the orders in which the files of a set may be yielded
Orders(S) ==
    {listing \in [1..Cardinality(S) -> S] :
        \A i, j \in 1..Cardinality(S) : listing[i] = listing[j] => i = j}

\* find_apk_files, rglob yielding the files in the order of the listing:
\* the descriptor of every file, the demos where there is no file, and the
\* first 100 of the list
find_apk_files(listing, disk, times, made, clock) ==
    LET apk_files ==
            [i \in DOMAIN listing |->
                PyDict([name |-> PyStr(basename(listing[i])),
                        path |-> PyStr(listing[i]),
                        size |-> PyInt(disk[listing[i]]),
                        last_modified |-> PyStr(strftime_minute(times[listing[i]])),
                        permissions |-> PyList(<<>>)])]
        demo == create_demo_files(disk, times, clock)
    IN  IF apk_files = <<>>
        THEN [apk_files |-> SubSeq(demo.demo_files, 1, Min(100, Len(demo.demo_files))),
              packages |-> demo.packages,
              mtime |-> demo.mtime,
              dirs |-> made \cup {demo.test_dir}]
        ELSE [apk_files |-> SubSeq(apk_files, 1, Min(100, Len(apk_files))),
              packages |-> disk,
              mtime |-> times,
              dirs |-> made]

\* create_apk_card(apk_info, index): the card shows the name, the size and
\* the quick tier of the name, and its delete button calls
\* delete_apk_file(idx, apk) with the index and the descriptor it was made
\* with
create_apk_card(info, index) ==
    [name |-> info.val.name,
     size |-> info.val.size,
     maliciousness |-> determine_maliciousness(info.val.name, PyNone),
     delete |-> [idx |-> index, apk |-> info]]

\* the card that load_apk_files shows where no package is found
NotFoundCard == [warning |-> "not found"]

\* the files of the user in downloads: three packages and a text
UserFiles ==
    { join(download_dirs[1], name) :
        name \in { <<"m","o","d",".","a","p","k">>,
                   <<"b","o","t",".","a","p","k">>,
                   <<"o","k",".","a","p","k">>,
                   <<"n","o","t","e","s",".","t","x","t">> } }

InitList ==
    /\ pc = "start"
    /\ apk_info = PyNone
    /\ analysis_data = PyNone
    /\ report = NoReport
    /\ earlier = NoEarlier
    /\ now = 0
    /\ ANDROGUARD_AVAILABLE = FALSE
    /\ REPORT_COMPOSER_AVAILABLE = TRUE
    /\ packages \in {Disk(UserFiles), Disk({})}
    /\ AnalyzeAPK = NotImported
    /\ apk_path = <<>>
    /\ output_dir = PyNone
    /\ failing = {}
    /\ dirs = {download_dirs[1]}
    /\ files = <<>>
    /\ saved_files = <<>>
    /\ result = NoResult
    /\ runs = 0
    /\ calls = <<>>
    /\ apk_list_view = <<>>
    /\ file_count_text = 0
    /\ dialog = NoDialog
    /\ mtime = [p \in DOMAIN packages |-> 0]

\* load_apk_files, when the application starts and on every refresh: the
\* list is cleared and filled with a card for every package found, and the
\* count shows their number
LoadApkFiles ==
    /\ dialog = NoDialog
    /\ \E listing \in Orders(Found(packages)) :
         \E found \in {find_apk_files(listing, packages, mtime, dirs, now)} :
            /\ apk_list_view' =
                  IF found.apk_files = <<>> THEN <<NotFoundCard>>
                  ELSE [i \in DOMAIN found.apk_files |->
                           create_apk_card(found.apk_files[i], i - 1)]
            /\ file_count_text' = Len(found.apk_files)
            /\ packages' = found.packages
            /\ mtime' = found.mtime
            /\ dirs' = found.dirs
            /\ result' = [kind |-> "loaded", value |-> found.apk_files]
    /\ pc' = "loaded"
    /\ UNCHANGED <<composer, now, ANDROGUARD_AVAILABLE, REPORT_COMPOSER_AVAILABLE,
                   AnalyzeAPK, apk_path, output_dir, failing,
                   files, saved_files, runs, calls, dialog>>

\* the delete button of the card at a position of the list:
\* delete_apk_file(idx, apk) opens the dialog that asks for confirmation
DeleteApkFile(position) ==
    /\ dialog = NoDialog
    /\ position \in DOMAIN apk_list_view
    /\ "delete" \in DOMAIN apk_list_view[position]
    /\ dialog' = [kind |-> "confirm",
                  index |-> apk_list_view[position].delete.idx,
                  apk_info |-> apk_list_view[position].delete.apk]
    /\ UNCHANGED <<pc, composer, now, environment, pipeline,
                   calls, apk_list_view, file_count_text, mtime>>

\* a dialog of the kind is open
Open(kind) == "kind" \in DOMAIN dialog /\ dialog.kind = kind

\* list.pop(index), the index counting from 0
pop(controls, index) ==
    [i \in 1..(Len(controls) - 1) |->
        IF i <= index THEN controls[i] ELSE controls[i + 1]]

\* the controls of the list after confirm_delete has removed the file:
\* `if index < len(controls): controls.pop(index)`
confirm_delete_controls(controls, index, info) ==
    IF index < Len(controls) THEN pop(controls, index) ELSE controls

\* confirm_delete: the file that exists is removed, the control at the
\* index is popped, the count shows the number of controls, and a message
\* tells the success; for a file that does not exist a message tells so
ConfirmDelete ==
    /\ Open("confirm")
    /\ LET file_path == dialog.apk_info.val.path.val
       IN  IF file_path \in DOMAIN packages
           THEN /\ packages' = [p \in DOMAIN packages \ {file_path} |-> packages[p]]
                /\ mtime' = [p \in DOMAIN mtime \ {file_path} |-> mtime[p]]
                /\ apk_list_view' =
                      confirm_delete_controls(apk_list_view, dialog.index,
                                              dialog.apk_info)
                /\ file_count_text' = Len(apk_list_view')
                /\ dialog' = [kind |-> "message", message_type |-> "info",
                              name |-> dialog.apk_info.val.name]
           ELSE /\ dialog' = [kind |-> "message", message_type |-> "warning",
                              name |-> dialog.apk_info.val.name]
                /\ UNCHANGED <<packages, mtime, apk_list_view, file_count_text>>
    /\ UNCHANGED <<pc, composer, now, ANDROGUARD_AVAILABLE, REPORT_COMPOSER_AVAILABLE,
                   AnalyzeAPK, apk_path, output_dir, failing, pipeline, calls>>

\* cancel_delete, the OK button of a message and the close button of the
\* results: the dialog is closed
CloseDialog ==
    /\ Open("confirm") \/ Open("message") \/ Open("results")
    /\ dialog' = NoDialog
    /\ UNCHANGED <<pc, composer, now, environment, pipeline,
                   calls, apk_list_view, file_count_text, mtime>>

NextList ==
    \/ LoadApkFiles
    \/ \E position \in 1..Len(demos) : DeleteApkFile(position)
    \/ ConfirmDelete
    \/ CloseDialog

SpecList == InitList /\ [][NextList]_vars

----------------------------------------------------------------------------
(* Properties of the list of packages.                                      *)

\* the descriptors that the last load_apk_files listed and whose file has
\* not been deleted since
NotDeleted ==
    SelectSeq(result.value, LAMBDA info : info.val.path.val \in DOMAIN packages)

\* the descriptors of the cards of the list
CardsOf(controls) == [i \in DOMAIN controls |-> controls[i].delete.apk]

\* C29: after any confirmed deletions since the list was loaded the cards
\* of the list are exactly the cards of the packages whose file has not
\* been deleted, and the file count shows the number of these packages.
CardsAreThePackagesNotDeleted ==
    pc = "loaded" =>
        /\ CardsOf(apk_list_view) = NotDeleted
        /\ file_count_text = Len(NotDeleted)

\* the first confirmed deletion since a load removes the card of the
\* package: until then every card is at the index it was made with
FirstDeletionRemovesItsCard ==
    (pc = "loaded" /\ Len(NotDeleted) >= Len(result.value) - 1) =>
        CardsOf(apk_list_view) = NotDeleted

----------------------------------------------------------------------------
(* The application analysing a package and listing the reports: the         *)
(* analyse button of a card calls analyze_apk_file, and the reports page    *)
(* calls find_reports.                                                      *)

\* interface.py imported analyze_single_apk from apk_analyzer, which lies
\* in the same directory
APK_ANALYZER_AVAILABLE == TRUE

\* output_dir=os.path.join(os.path.dirname(__file__), "analysis_results")
analysis_results ==
    join(AppDir, <<"a","n","a","l","y","s","i","s","_","r","e","s","u","l","t","s">>)

\* the extensions that find_reports looks for, in its order
ReportExtensions ==
    << <<".","j","s","o","n">>, <<".","t","x","t">>, <<".","c","s","v">>,
       <<".","h","t","m","l">> >>

\* the files that Path(reports_dir).rglob(f"*{ext}") yields
ReportsFound(reports_dir, ext, disk) ==
    {p \in DOMAIN disk : EndsWith(basename(p), ext) /\ IsUnder(p, reports_dir)}

\* list.sort(key=modified, reverse=True) of the entries from i on into the
\* sorted list: the sort is stable, so an entry goes behind the entries
\* that are at least as new
RECURSIVE sort_modified(_, _, _)
sort_modified(report_files, i, sorted) ==
    IF i > Len(report_files) THEN sorted
    ELSE LET x == report_files[i]
             ahead == Cardinality({j \in DOMAIN sorted :
                                      sorted[j].modified >= x.modified})
         IN  sort_modified(report_files, i + 1,
                 SubSeq(sorted, 1, ahead) \o <<x>>
                     \o SubSeq(sorted, ahead + 1, Len(sorted)))

\* find_reports, rglob yielding the files of each extension in the order
\* of its listing: nothing where <app>/analysis_reports does not exist,
\* else name, path, minute of modification and format of every file found,
\* the newest first, 50 at most. The minute is kept as a number, the
\* string having a fixed width; the size of a file is not modelled.
find_reports(listings, disk, times, made) ==
    LET reports_dir == join(AppDir, analysis_reports)
        entries(e) ==
            [i \in DOMAIN listings[e] |->
                [name |-> basename(listings[e][i]),
                 path |-> listings[e][i],
                 modified |-> times[listings[e][i]] \div 60,
                 format |-> Tail(ReportExtensions[e])]]
        report_files == entries(1) \o entries(2) \o entries(3) \o entries(4)
        sorted == sort_modified(report_files, 1, <<>>)
    IN  IF reports_dir \notin made THEN <<>>
        ELSE SubSeq(sorted, 1, Min(50, Len(sorted)))

\* the reports that lie in <app>/analysis_reports when the application
\* starts: none, or those of an earlier session
OldReports ==
    {join(join(AppDir, analysis_reports), name) :
        name \in { <<"o","l","d","_","0",".","j","s","o","n">>,
                   <<"o","l","d","_","0",".","t","x","t">> }}

InitReports ==
    /\ pc = "loaded"
    /\ apk_info = PyNone
    /\ analysis_data = PyNone
    /\ report = NoReport
    /\ earlier = NoEarlier
    /\ now = 0
    /\ ANDROGUARD_AVAILABLE \in BOOLEAN
    /\ REPORT_COMPOSER_AVAILABLE \in BOOLEAN
    /\ packages = Disk(UserFiles)
    /\ IF ANDROGUARD_AVAILABLE
       THEN AnalyzeAPK \in {x \in Extractions : x.permissions # PyNone}
       ELSE AnalyzeAPK = NotImported
    /\ apk_path = <<>>
    /\ output_dir = PyNone
    /\ failing = {}
    /\ \/ /\ dirs = {download_dirs[1]}
          /\ files = <<>>
       \/ /\ dirs = {download_dirs[1], join(AppDir, analysis_reports)}
          /\ files = [p \in OldReports |-> EmptyFile("json")]
    /\ saved_files = <<>>
    /\ result = NoResult
    /\ runs = 0
    /\ calls = <<>>
    /\ apk_list_view = <<>>
    /\ file_count_text = 0
    /\ dialog = NoDialog
    /\ mtime = [p \in DOMAIN packages \cup DOMAIN files |-> 0]

\* analyze_apk_file(apk_info) for a package of the list: analyze_single_apk
\* on its path with <app>/analysis_results as the output directory; the
\* results are shown in a dialog, for whose preview show_analysis_results
\* makes a ReportComposer on the working directory; an exception is caught
\* and told in the status line
AnalyzeApkFile ==
    /\ dialog = NoDialog
    /\ runs < MaxRuns
    /\ APK_ANALYZER_AVAILABLE
    /\ \E path \in Found(packages) :
         \E call \in {analyze_single_apk(path, PyStr(analysis_results),
                         [packages |-> packages,
                          androguard |-> ANDROGUARD_AVAILABLE,
                          composer |-> REPORT_COMPOSER_AVAILABLE,
                          outcome |-> AnalyzeAPK,
                          failing |-> failing,
                          clock |-> now,
                          dirs |-> dirs,
                          files |-> files,
                          saved_files |-> saved_files])} :
             /\ apk_path' = path
             /\ output_dir' = PyStr(analysis_results)
             /\ result' = call.result
             /\ files' = call.files
             /\ mtime' = [p \in DOMAIN mtime \cup DOMAIN call.files |->
                             IF p \in DOMAIN call.files
                                   /\ (p \notin DOMAIN files \/ call.files[p] # files[p])
                             THEN now ELSE mtime[p]]
             /\ saved_files' = call.saved_files
             /\ IF call.composed
                THEN /\ apk_info' = call.apk_info
                     /\ analysis_data' = call.analysis_data
                     /\ report' = call.report
                     /\ dirs' = call.dirs \cup {ReportComposer(<<>>).reports_dir}
                     /\ dialog' = [kind |-> "results",
                                   name |-> basename(path),
                                   saved_files |-> call.saved_files]
                ELSE /\ dirs' = call.dirs
                     /\ UNCHANGED <<apk_info, analysis_data, report, dialog>>
    /\ runs' = runs + 1
    /\ pc' = "analyzed"
    /\ UNCHANGED <<earlier, now, ANDROGUARD_AVAILABLE, REPORT_COMPOSER_AVAILABLE,
                   packages, AnalyzeAPK, failing,
                   calls, apk_list_view, file_count_text>>

\* the reports page: find_reports() and a row for every entry
ShowReportsPage ==
    /\ dialog = NoDialog
    /\ \E json \in Orders(ReportsFound(join(AppDir, analysis_reports), ReportExtensions[1], files)),
          txt \in Orders(ReportsFound(join(AppDir, analysis_reports), ReportExtensions[2], files)),
          csv \in Orders(ReportsFound(join(AppDir, analysis_reports), ReportExtensions[3], files)),
          html \in Orders(ReportsFound(join(AppDir, analysis_reports), ReportExtensions[4], files)) :
         result' = [kind |-> "listed",
                    value |-> find_reports(<<json, txt, csv, html>>, files, mtime, dirs)]
    /\ pc' = "listed"
    /\ UNCHANGED <<composer, now, environment, dirs, files, saved_files, runs>>
    /\ UNCHANGED application

NextReports == AnalyzeApkFile \/ ShowReportsPage \/ CloseDialog \/ Tick

SpecReports == InitReports /\ [][NextReports]_vars

----------------------------------------------------------------------------
(* Properties of the reports page.                                          *)

\* the reports page is shown after an analysis has saved its reports
ListedAfterAnalysis ==
    /\ pc = "listed"
    /\ result.kind = "listed"
    /\ DOMAIN saved_files # {}

\* the paths of the entries of the last listing
ListedPaths == {result.value[i].path : i \in DOMAIN result.value}

\* C30: every report file that an analysis from the package list has
\* written lies in the directory that the reports page scans, and the
\* next listing of the reports names every one of them, as long as there
\* are no more than 50 reports.
AnalysisReportsAreListed ==
    ListedAfterAnalysis =>
        \A fmt \in DOMAIN saved_files :
            /\ IsUnder(saved_files[fmt], join(AppDir, analysis_reports))
            /\ Cardinality(DOMAIN files) <= 50 => saved_files[fmt] \in ListedPaths

\* every report of an analysis lies below <app>/analysis_results, and no
\* listing names it
AnalysisReportsAreNeverListed ==
    ListedAfterAnalysis =>
        \A fmt \in DOMAIN saved_files :
            /\ IsUnder(saved_files[fmt], join(analysis_results, analysis_reports))
            /\ saved_files[fmt] \notin ListedPaths

\* the listing names the reports of <app>/analysis_reports
OldReportsAreListed ==
    (pc = "listed" /\ OldReports \subseteq DOMAIN files) => ListedPaths = OldReports

====
